---- MODULE Spec2Model ----
(***************************************************************************)
(* A model of the agent orchestration pipeline of millow-server:           *)
(*   - AgentOrchestratorService (processQuery, determineAgents,            *)
(*     processWithAgents, combineResults, mergeMongoQueries,               *)
(*     processMapsFirst, crossValidateResults),                            *)
(*   - MapsAgentService.filterPropertiesByProximity,                       *)
(*   - ValidatorAgentService.validateInput,                                *)
(*   - ConversationService.updateSearchContext,                            *)
(*   - MapsAgentService.process and MapsService.findByLocation,            *)
(*   - MapsService.sortAndLimitResults.                                    *)
(*                                                                         *)
(* These specifications share the module:                                   *)
(*   Spec         one processQuery turn on a session, step by step         *)
(*   SpecGeo      the two proximity filters applied to drawn inputs        *)
(*   SpecCombine  the result merger folded over drawn agent outputs        *)
(*   SpecMerge    the continuation merge and the context update            *)
(*   SpecValidate the validator applied to drawn parameter bags            *)
(*   SpecSort     sortAndLimitResults applied to drawn lists of places     *)
(*   SpecLookup   the concurrent lookups of one MapsAgent call             *)
(*   SpecLive     Spec under weak fairness of the turn's steps             *)
(***************************************************************************)
EXTENDS Integers, Sequences, FiniteSets, TLC

VARIABLES
    \* ---- SpecGeo: inputs and outputs of the proximity filters
    properties,             \* the candidate records handed to the filter
    nearbyPlacesResponses,  \* one lookup response per requested amenity
    logicalOperator,        \* "AND" or "OR"
    geoPc,                  \* "input" | "crossValidated" | "proximityFiltered"
    geoOut,                 \* the records the filter returned
    \* ---- SpecCombine: the loop of processWithAgents over agent outputs
    agentOutputs,           \* what each ordered agent's process returns
    currentResult,          \* the accumulated AgentOutput
    combineIdx,             \* how many agents have been processed
    \* ---- SpecMerge: the continuation merge and the context update
    searchContext,          \* conversation.searchContext, as persisted
    newInputs,              \* extractedInputs as the language model gave them
    decision,               \* the AgentDecision determineAgents returned
    onceDecision,           \* the decision of the turn before
    onceContext,            \* the context persisted by the turn before
    mergePc,                \* "fresh" | "established" | "merged" | "repeated"
    \* ---- Spec: one turn of processQuery
    pc,                     \* where the turn stands
    calls,                  \* the collaborators and agents invoked, in order
    orderedAgents,          \* processWithAgents' orderedAgents (names)
    result,                 \* the AgentOutput processQuery returned
    planning,               \* how the decision call went: "pending" | "ok" | "failed" | "malformed"
    \* ---- SpecSort: MapsService.sortAndLimitResults
    placeResults,           \* the places handed to sortAndLimitResults
    sortParams,             \* sortBy, sortDesc, limit of the call
    sortedResults,          \* what the call returned
    sortPc,                 \* "collecting" | "sorted"
    \* ---- SpecLookup: the lookups of one MapsAgentService.process call
    lookupRequest,          \* what the lookups are asked with
    lookups,                \* one promise per amenity: status, outcome, results
    batch                   \* the Promise.all over them and what process makes of it

geoVars == <<properties, nearbyPlacesResponses, logicalOperator, geoPc, geoOut>>
combineVars == <<agentOutputs, currentResult, combineIdx>>

mergeVars == <<searchContext, newInputs, decision, onceDecision, onceContext, mergePc>>

turnVars == <<pc, calls, orderedAgents, result, planning>>

sortVars == <<placeResults, sortParams, sortedResults, sortPc>>

lookupVars == <<lookupRequest, lookups, batch>>

vars == <<geoVars, combineVars, mergeVars, turnVars, sortVars, lookupVars>>

(***************************************************************************)
(* The values the variables of a specification have while another          *)
(* specification of the module runs.                                       *)
(***************************************************************************)
Undefined == <<0>>

NoData == [k \in {} |-> 0]

GeoIdle ==
    /\ properties = <<>>
    /\ nearbyPlacesResponses = <<>>
    /\ logicalOperator = "OR"
    /\ geoPc = "idle"
    /\ geoOut = <<>>

\* An AgentOutput: data.mongoQuery is kept as a field of its own, data
\* holds the other keys of the data bag; an absent missingInputs and an
\* empty one are not told apart (the code tests its length).
NoOutput ==
    [response |-> "", mongoQuery |-> Undefined, data |-> NoData, missingInputs |-> <<>>]

CombineIdle ==
    /\ agentOutputs = <<>>
    /\ currentResult = NoOutput
    /\ combineIdx = 0

TurnIdle ==
    /\ pc = "idle"
    /\ calls = <<>>
    /\ orderedAgents = <<>>
    /\ result = NoOutput
    /\ planning = "pending"

NoSortParams == [sortBy |-> "rating", sortDesc |-> TRUE, limit |-> 0]

SortIdle ==
    /\ placeResults = <<>>
    /\ sortParams = NoSortParams
    /\ sortedResults = <<>>
    /\ sortPc = "idle"

NoRequest == [locationIsString |-> TRUE, hasApiKey |-> TRUE]
NoBatch == [pc |-> "idle", nearbyPlaces |-> <<>>]

LookupIdle ==
    /\ lookupRequest = NoRequest
    /\ lookups = <<>>
    /\ batch = NoBatch

\* Values of the extracted-inputs bag.  A free-text query is a sequence of
\* words (the empty sequence is the empty string); a location is a string
\* (one name) or an array of names; amenities are an array or are absent.
\* An absent key and a falsy value are not told apart.
NoQuery == <<>>
NoLocation == [isArray |-> FALSE, names |-> <<>>]
NoAmenities == [isArray |-> FALSE, items |-> <<>>]
NoOperator == ""

NoInputs ==
    [query |-> NoQuery, location |-> NoLocation, amenities |-> NoAmenities,
     logicalOperator |-> NoOperator, propertyId |-> ""]

NoDecision ==
    [agents |-> <<>>, extractedInputs |-> NoInputs, isContinuation |-> FALSE]

\* getSearchContext returns null: the conversation has no searchContext yet
NoContext ==
    [exists |-> FALSE, query |-> NoQuery, location |-> NoLocation,
     amenities |-> NoAmenities, logicalOperator |-> NoOperator,
     mongoQuery |-> Undefined, extractedInputs |-> NoInputs,
     previousAgents |-> <<>>, isContinuation |-> FALSE]

MergeIdle ==
    /\ searchContext = NoContext
    /\ newInputs = NoInputs
    /\ decision = NoDecision
    /\ onceDecision = NoDecision
    /\ onceContext = NoContext
    /\ mergePc = "idle"

(***************************************************************************)
(* Helpers on sequences.                                                   *)
(***************************************************************************)
SeqsUpTo(S, n) == UNION {[1..k -> S] : k \in 0..n}

Range(s) == {s[i] : i \in 1..Len(s)}

RECURSIVE Flatten(_)
Flatten(ss) ==
    IF ss = <<>> THEN <<>> ELSE Head(ss) \o Flatten(Tail(ss))

RECURSIVE SumLen(_)
SumLen(ss) ==
    IF ss = <<>> THEN 0 ELSE Len(Head(ss)) + SumLen(Tail(ss))

(***************************************************************************)
(* Agent outputs and the result merger.                                    *)
(*                                                                         *)
(* A MongoDB query (structured filter) is written as a sequence of         *)
(* integers: <<>> is the empty object {}, <<n>> with n >= 1 is a filter    *)
(* with keys (fragment n), <<-k>> followed by k filters is {$and: [...]},  *)
(* and <<0>> stands for undefined (no mongoQuery key).                     *)
(***************************************************************************)
MaxOutputs == 3

EmptyQuery == <<>>
Fragment(n) == <<n>>

NoAgentsResponse == "Lo siento, no puedo procesar esta solicitud en este momento."
ErrorResponse == "Lo siento, ocurrio un error al procesar tu solicitud. Por favor, intenta de nuevo."
SynthesizedResponse == "combined response"

\* response.includes('Lo siento, no puedo procesar') || .includes('ocurrio un error')
isGenericFailure(response) == response \in {NoAgentsResponse, ErrorResponse}

DataKeys == {"properties"}

Override(f, g) ==
    [k \in DOMAIN f \cup DOMAIN g |-> IF k \in DOMAIN g THEN g[k] ELSE f[k]]

\* A plausible slip: empty queries are not filtered out before merging.
mergeMongoQueriesKeepEmpty(queries) ==
    IF Len(queries) = 0 THEN EmptyQuery
    ELSE IF Len(queries) = 1 THEN queries[1]
    ELSE <<-Len(queries)>> \o Flatten(queries)

mergeMongoQueries(queries) ==
    LET nonEmptyQueries ==
            SelectSeq(queries, LAMBDA q : q # Undefined /\ Len(q) > 0)
    IN  IF Len(nonEmptyQueries) = 0 THEN EmptyQuery
        ELSE IF Len(nonEmptyQueries) = 1 THEN nonEmptyQueries[1]
        ELSE <<-Len(nonEmptyQueries)>> \o Flatten(nonEmptyQueries)

\* A plausible slip: a key already in the combined data keeps its value.
RECURSIVE combineDataFirstWins(_)
combineDataFirstWins(results) ==
    IF results = <<>> THEN NoData
    ELSE Override(results[Len(results)].data,
                  combineDataFirstWins(SubSeq(results, 1, Len(results) - 1)))

RECURSIVE combineData(_)
combineData(results) ==
    IF results = <<>> THEN NoData
    ELSE Override(combineData(SubSeq(results, 1, Len(results) - 1)),
                  results[Len(results)].data)

\* combineResults(results); `synthesis` is whether the language model's
\* processConversation returns ("ok") or throws ("fail")
combineResults(results, synthesis) ==
    LET withQuery == SelectSeq(results, LAMBDA r : r.mongoQuery # Undefined)
        mongoQueries == [i \in 1..Len(withQuery) |-> withQuery[i].mongoQuery]
        valid == SelectSeq(results,
                     LAMBDA r : r.response # "" /\ ~isGenericFailure(r.response))
        validResponses == [i \in 1..Len(valid) |-> valid[i].response]
        combinedResponse ==
            IF Len(validResponses) > 1
            THEN IF synthesis = "ok" THEN SynthesizedResponse ELSE validResponses[1]
            ELSE IF Len(validResponses) > 0 THEN validResponses[1]
            ELSE IF results[1].response # "" THEN results[1].response
            ELSE NoAgentsResponse
    IN  [response |-> combinedResponse,
         mongoQuery |-> IF Len(mongoQueries) > 0
                        THEN mergeMongoQueries(mongoQueries) ELSE Undefined,
         data |-> combineData(results),
         missingInputs |-> <<>>]

\* the i-th agent's own text
TextOf(i) == "text " \o ToString(i)

\* what the i-th agent may return: a text of its own, a generic failure text
\* or no text; no filter, an empty filter or its own fragment; with or
\* without a value of its own under each data key
OutputsOf(i) ==
    {[response |-> r, mongoQuery |-> q, data |-> d, missingInputs |-> <<>>] :
        r \in {TextOf(i), NoAgentsResponse, ErrorResponse, ""},
        q \in {Undefined, EmptyQuery, Fragment(i)},
        d \in UNION {[ks -> {i}] : ks \in SUBSET DataKeys}}

\* processWithAgents is entered with its ordered agents; none has run yet
CombineInit ==
    /\ agentOutputs = <<>>
    /\ currentResult = NoOutput
    /\ combineIdx = 0

\* the first agent of the loop: currentResult = await agent.process(input)
ProcessFirstAgent ==
    /\ combineIdx = 0
    /\ \E agentResult \in OutputsOf(1) :
          /\ agentOutputs' = <<agentResult>>
          /\ currentResult' = agentResult
    /\ combineIdx' = 1
    /\ UNCHANGED <<geoVars, sortVars, lookupVars, mergeVars, turnVars>>

\* a later agent: currentResult = combineResults([currentResult, agentResult])
ProcessNextAgent ==
    /\ combineIdx >= 1
    /\ combineIdx < MaxOutputs
    /\ \E agentResult \in OutputsOf(combineIdx + 1), synthesis \in {"ok", "fail"} :
          /\ agentOutputs' = Append(agentOutputs, agentResult)
          /\ currentResult' = combineResults(<<currentResult, agentResult>>, synthesis)
    /\ combineIdx' = combineIdx + 1
    /\ UNCHANGED <<geoVars, sortVars, lookupVars, mergeVars, turnVars>>

CombineNext == ProcessFirstAgent \/ ProcessNextAgent

InitCombine == CombineInit /\ GeoIdle /\ MergeIdle /\ TurnIdle /\ SortIdle /\ LookupIdle

SpecCombine == InitCombine /\ [][CombineNext]_vars

(***************************************************************************)
(* Claims on the result merger (checked under SpecCombine).                *)
(***************************************************************************)
\* the non-empty filter fragments of the outputs processed so far, in order
FragmentsSoFar ==
    LET done == SubSeq(agentOutputs, 1, combineIdx)
        with == SelectSeq(done, LAMBDA r : r.mongoQuery # Undefined /\ r.mongoQuery # <<>>)
    IN  [i \in 1..Len(with) |-> with[i].mongoQuery]

RECURSIVE LeftNestedAnd(_)
LeftNestedAnd(fs) ==
    IF Len(fs) = 1 THEN fs[1]
    ELSE <<-2>> \o LeftNestedAnd(SubSeq(fs, 1, Len(fs) - 1)) \o fs[Len(fs)]

\* the loop may end after any agent: the list of ordered agents is any list
CombineDone == combineIdx >= 1 /\ combineIdx = Len(agentOutputs)

\* C6 (as claimed): the merged filter is empty when no output has a
\* non-empty filter, the single non-empty filter when exactly one has, and
\* otherwise one $and whose operands are exactly the non-empty fragments.
C6_FlatConjunction ==
    CombineDone =>
        CASE Len(FragmentsSoFar) = 0 -> currentResult.mongoQuery \in {Undefined, EmptyQuery}
          [] Len(FragmentsSoFar) = 1 -> currentResult.mongoQuery = FragmentsSoFar[1]
          [] OTHER -> currentResult.mongoQuery =
                          <<-Len(FragmentsSoFar)>> \o Flatten(FragmentsSoFar)

\* C6 (amended): ... and otherwise a $and of two operands, the filter merged
\* from the earlier outputs and the latest non-empty fragment; so two
\* fragments give one $and of both, and three or more give $and nested to
\* the left, whose leaves are exactly the non-empty fragments in order.
C6_NestedConjunction ==
    CombineDone =>
        CASE Len(FragmentsSoFar) = 0 -> currentResult.mongoQuery \in {Undefined, EmptyQuery}
          [] Len(FragmentsSoFar) = 1 -> currentResult.mongoQuery = FragmentsSoFar[1]
          [] OTHER ->
                /\ currentResult.mongoQuery = LeftNestedAnd(FragmentsSoFar)
                /\ SelectSeq(currentResult.mongoQuery, LAMBDA x : x > 0)
                       = Flatten(FragmentsSoFar)

\* C6's cases: three outputs, an empty filter between two fragments (one
\* conjunction of the two); and three fragments (nested)
C6_Witness ==
    /\ CombineDone
    /\ Len(agentOutputs) = 3
    /\ agentOutputs[2].mongoQuery = EmptyQuery
    /\ currentResult.mongoQuery = <<-2, 1, 3>>

C6_ReachNested ==
    /\ CombineDone
    /\ Len(FragmentsSoFar) = 3
    /\ currentResult.mongoQuery = <<-2, -2, 1, 2, 3>>

(***************************************************************************)
(* The Decision Engine's continuation merge (determineAgents) and the      *)
(* context store's update (ConversationService.updateSearchContext).       *)
(***************************************************************************)
truthyQuery(q) == q # <<>>
truthyLocation(l) == l.isArray \/ l.names # <<>>
truthyAmenities(a) == a.isArray \/ a.items # <<>>
truthyOperator(o) == o # ""

ContinuationWords == {"with", "also", "that"}
FreshWords == {"quiero", "busco", "necesito"}

\* [...new Set(items)]: the first occurrence of each item, in order
RECURSIVE Dedupe(_)
Dedupe(items) ==
    IF items = <<>> THEN <<>>
    ELSE LET front == Dedupe(SubSeq(items, 1, Len(items) - 1))
             last == items[Len(items)]
         IN  IF last \in Range(front) THEN front ELSE Append(front, last)

\* A plausible slip: the starting-fresh words are looked for before the
\* continuation phrases.
combineQueriesFreshFirst(previousQuery, newQuery) ==
    IF \E i \in 1..Len(newQuery) : newQuery[i] \in FreshWords THEN newQuery
    ELSE previousQuery \o newQuery

combineQueries(previousQuery, newQuery) ==
    IF newQuery[1] \in ContinuationWords THEN previousQuery \o newQuery
    ELSE IF \E i \in 1..Len(newQuery) : newQuery[i] \in FreshWords THEN newQuery
    ELSE previousQuery \o newQuery

\* determineAgents, lines 228-262: the merge of the extracted inputs with
\* the previous search context
mergeWithContext(context, inputs) ==
    [query |->
        IF truthyQuery(context.query) /\ truthyQuery(inputs.query)
        THEN combineQueries(context.query, inputs.query)
        ELSE IF truthyQuery(context.query) THEN context.query
        ELSE inputs.query,
     location |->
        IF truthyLocation(context.location) /\ ~truthyLocation(inputs.location)
        THEN context.location ELSE inputs.location,
     amenities |->
        IF truthyAmenities(context.amenities) /\ truthyAmenities(inputs.amenities)
        THEN [isArray |-> TRUE,
              items |-> Dedupe(context.amenities.items \o inputs.amenities.items)]
        ELSE IF truthyAmenities(context.amenities) THEN context.amenities
        ELSE inputs.amenities,
     logicalOperator |->
        IF truthyOperator(context.logicalOperator) /\ ~truthyOperator(inputs.logicalOperator)
        THEN context.logicalOperator ELSE inputs.logicalOperator,
     propertyId |-> inputs.propertyId]

\* determineAgents: `response` is what processConversationToJson returned
determineAgents(context, response) ==
    [agents |-> response.agents,
     extractedInputs |->
        IF response.isContinuation /\ context.exists
        THEN mergeWithContext(context, response.extractedInputs)
        ELSE response.extractedInputs,
     isContinuation |-> response.isContinuation]

\* {...old, ...new}: a key of the new bag replaces the old one
spreadInputs(old, new) ==
    [query |-> IF truthyQuery(new.query) THEN new.query ELSE old.query,
     location |-> IF truthyLocation(new.location) THEN new.location ELSE old.location,
     amenities |-> IF truthyAmenities(new.amenities) THEN new.amenities ELSE old.amenities,
     logicalOperator |->
        IF truthyOperator(new.logicalOperator) THEN new.logicalOperator
        ELSE old.logicalOperator,
     propertyId |-> IF new.propertyId # "" THEN new.propertyId ELSE old.propertyId]

\* A plausible slip: the fields are assigned whether or not the new bag
\* has a value for them.
updateSearchContextOverwrite(context, agentDecision, mongoQuery) ==
    [exists |-> TRUE,
     previousAgents |-> agentDecision.agents,
     isContinuation |-> agentDecision.isContinuation,
     extractedInputs |-> agentDecision.extractedInputs,
     query |-> agentDecision.extractedInputs.query,
     location |-> agentDecision.extractedInputs.location,
     amenities |-> agentDecision.extractedInputs.amenities,
     logicalOperator |-> agentDecision.extractedInputs.logicalOperator,
     mongoQuery |-> mongoQuery]

\* updateSearchContext(sessionId, agentDecision, mongoQuery) on an existing
\* conversation (lastUpdated, a time stamp, is left out)
updateSearchContext(context, agentDecision, mongoQuery) ==
    LET inputs == agentDecision.extractedInputs
    IN  [exists |-> TRUE,
         previousAgents |-> agentDecision.agents,
         isContinuation |-> agentDecision.isContinuation,
         extractedInputs |-> spreadInputs(context.extractedInputs, inputs),
         query |-> IF truthyQuery(inputs.query) THEN inputs.query ELSE context.query,
         location |->
            IF truthyLocation(inputs.location) THEN inputs.location ELSE context.location,
         amenities |->
            IF truthyAmenities(inputs.amenities) THEN inputs.amenities ELSE context.amenities,
         logicalOperator |->
            IF truthyOperator(inputs.logicalOperator) THEN inputs.logicalOperator
            ELSE context.logicalOperator,
         mongoQuery |-> IF mongoQuery # Undefined THEN mongoQuery ELSE context.mongoQuery]

\* the new-turn parameter bags the language model extracts
MergeQueries ==
    {NoQuery, <<"casa">>, <<"quiero", "casa">>, <<"with", "patio">>,
     <<"also", "busco", "patio">>}
MergeLocations == {NoLocation} \cup [isArray : {FALSE}, names : {<<"Guadalajara">>, <<"Zapopan">>}]
MergeAmenities ==
    {NoAmenities}
    \cup [isArray : {TRUE},
          items : {<<"hospital">>, <<"school", "hospital">>, <<"hospital", "hospital">>}]
MergeOperators == {NoOperator, "AND", "OR"}

MergeInputs ==
    [query : MergeQueries, location : MergeLocations, amenities : MergeAmenities,
     logicalOperator : MergeOperators, propertyId : {""}]

MergeInit ==
    /\ searchContext = NoContext
    /\ newInputs = NoInputs
    /\ decision = NoDecision
    /\ onceDecision = NoDecision
    /\ onceContext = NoContext
    /\ mergePc = "fresh"

\* one turn's steps 1-3 of processQuery: read the context, decide (with the
\* continuation merge), persist the decision
decideAndPersist(inputs, isContinuation) ==
    LET response == [agents |-> <<"FilterAgent">>, extractedInputs |-> inputs,
                     isContinuation |-> isContinuation]
        agentDecision == determineAgents(searchContext, response)
    IN  /\ newInputs' = inputs
        /\ decision' = agentDecision
        /\ searchContext' = updateSearchContext(searchContext, agentDecision, Undefined)
        /\ onceDecision' = decision
        /\ onceContext' = searchContext

\* the first turn of the session: no context to merge with
FirstTurn ==
    /\ mergePc = "fresh"
    /\ \E inputs \in MergeInputs, isContinuation \in BOOLEAN :
          decideAndPersist(inputs, isContinuation)
    /\ mergePc' = "established"
    /\ UNCHANGED <<geoVars, sortVars, lookupVars, combineVars, turnVars>>

\* a continuation turn with new parameters
MergeTurn ==
    /\ mergePc = "established"
    /\ \E inputs \in MergeInputs : decideAndPersist(inputs, TRUE)
    /\ mergePc' = "merged"
    /\ UNCHANGED <<geoVars, sortVars, lookupVars, combineVars, turnVars>>

\* the same continuation turn once more: the language model extracts the
\* same parameters again
RepeatTurn ==
    /\ mergePc = "merged"
    /\ decideAndPersist(newInputs, TRUE)
    /\ mergePc' = "repeated"
    /\ UNCHANGED <<geoVars, sortVars, lookupVars, combineVars, turnVars>>

MergeNext == FirstTurn \/ MergeTurn \/ RepeatTurn

InitMerge == MergeInit /\ GeoIdle /\ CombineIdle /\ TurnIdle /\ SortIdle /\ LookupIdle

SpecMerge == InitMerge /\ [][MergeNext]_vars

(***************************************************************************)
(* Claims on the continuation merge (checked under SpecMerge).             *)
(***************************************************************************)
\* C2 (as claimed): applying the continuation merge and the context update
\* twice with the same new-turn parameters gives the same merged parameters
\* and the same persisted context as applying them once.
C2_MergeIdempotent ==
    mergePc = "repeated" =>
        /\ decision.extractedInputs = onceDecision.extractedInputs
        /\ searchContext = onceContext

(***************************************************************************)
(* Geospatial cross-validation.                                            *)
(*                                                                         *)
(* Coordinates are taken on one meridian and given in whole kilometres     *)
(* from a reference point, so that the Haversine distance of two points    *)
(* is the absolute difference of their positions.  A record's `hasCoords`  *)
(* is the truth value of                                                   *)
(*   property.location && .coordinates && .coordinates.lat && .lng.        *)
(***************************************************************************)
MaxProps == 2
MaxPlaces == 2

PropertyKm == {0, 1}
PlaceKm == {11, 21}
PlaceTypes == {"hospital", "school"}

PropertyKinds == [hasCoords : {TRUE}, km : PropertyKm] \cup {[hasCoords |-> FALSE, km |-> 0]}
PlaceKinds == [type : PlaceTypes, km : PlaceKm]

\* The record lists: entry i carries id i, so that a record can be told
\* from an equal one in the output.
PropertyLists ==
    {[i \in 1..Len(ks) |-> [id |-> i, hasCoords |-> ks[i].hasCoords, km |-> ks[i].km]] :
        ks \in SeqsUpTo(PropertyKinds, MaxProps)}

\* MapsAgent asks one lookup per amenity; here one or two amenities were
\* requested and the lookups returned at most MaxPlaces places in all.
ResponseLists ==
    {rs \in UNION {[1..k -> [results : SeqsUpTo(PlaceKinds, MaxPlaces)]] : k \in 1..2} :
        SumLen([i \in 1..Len(rs) |-> rs[i].results]) <= MaxPlaces}

CrossValidateKm == 10
ProximityKm == 20

calculateDistance(km1, km2) == IF km1 >= km2 THEN km1 - km2 ELSE km2 - km1

\* nearbyPlacesResponses.flatMap(response => response.results.map(...))
allPlaceCoordinates(responses) ==
    Flatten([i \in 1..Len(responses) |-> responses[i].results])

\* distances of one record to every place, in the order of the places
distancesOf(property, coords) ==
    [i \in 1..Len(coords) |->
        [distance |-> calculateDistance(property.km, coords[i].km),
         type |-> coords[i].type]]

\* typeGroups: the distances grouped by the place's type
typeGroups(distances) ==
    [t \in {distances[i].type : i \in 1..Len(distances)} |->
        SelectSeq(distances, LAMBDA d : d.type = t)]

\* A plausible slip in the filter callback: AND decided on the nearest place
\* of any type (a single global minimum) instead of per type.
withinReachGlobalMin(property, coords, operator, maxKm) ==
    \E i \in 1..Len(coords) : calculateDistance(property.km, coords[i].km) <= maxKm

\* the predicate of the final filter(...) of both proximity filters
withinReach(property, coords, operator, maxKm) ==
    LET distances == distancesOf(property, coords)
        groups == typeGroups(distances)
    IN  IF operator = "AND"
        THEN \A t \in DOMAIN groups :
                \E i \in 1..Len(groups[t]) : groups[t][i].distance <= maxKm
        ELSE \E i \in 1..Len(distances) : distances[i].distance <= maxKm

\* A plausible slip: the early return for an empty batch of places is missing.
crossValidateNoEmptyBatchReturn(props, responses, operator) ==
    LET coords == allPlaceCoordinates(responses)
        propertiesWithCoordinates == SelectSeq(props, LAMBDA p : p.hasCoords)
    IN  IF Len(propertiesWithCoordinates) = 0 THEN props
        ELSE SelectSeq(propertiesWithCoordinates,
                       LAMBDA p : withinReach(p, coords, operator, CrossValidateKm))

crossValidateResults(props, responses, operator) ==
    LET coords == allPlaceCoordinates(responses)
        propertiesWithCoordinates == SelectSeq(props, LAMBDA p : p.hasCoords)
    IN  IF Len(coords) = 0 THEN props
        ELSE IF Len(propertiesWithCoordinates) = 0 THEN props
        ELSE SelectSeq(propertiesWithCoordinates,
                       LAMBDA p : withinReach(p, coords, operator, CrossValidateKm))

filterPropertiesByProximity(props, responses, operator) ==
    LET coords == allPlaceCoordinates(responses)
        propertiesWithCoordinates == SelectSeq(props, LAMBDA p : p.hasCoords)
    IN  IF Len(coords) = 0 THEN props
        ELSE IF Len(propertiesWithCoordinates) = 0 THEN props
        ELSE SelectSeq(propertiesWithCoordinates,
                       LAMBDA p : withinReach(p, coords, operator, ProximityKm))

GeoInit ==
    /\ properties \in PropertyLists
    /\ nearbyPlacesResponses \in ResponseLists
    /\ logicalOperator \in {"AND", "OR"}
    /\ geoPc = "input"
    /\ geoOut = <<>>

CrossValidate ==
    /\ geoPc = "input"
    /\ geoOut' = crossValidateResults(properties, nearbyPlacesResponses, logicalOperator)
    /\ geoPc' = "crossValidated"
    /\ UNCHANGED <<properties, nearbyPlacesResponses, logicalOperator, combineVars,
                   mergeVars, turnVars, sortVars, lookupVars>>

FilterByProximity ==
    /\ geoPc = "input"
    /\ geoOut' = filterPropertiesByProximity(properties, nearbyPlacesResponses, logicalOperator)
    /\ geoPc' = "proximityFiltered"
    /\ UNCHANGED <<properties, nearbyPlacesResponses, logicalOperator, combineVars,
                   mergeVars, turnVars, sortVars, lookupVars>>

GeoNext == CrossValidate \/ FilterByProximity

InitGeo == GeoInit /\ CombineIdle /\ MergeIdle /\ TurnIdle /\ SortIdle /\ LookupIdle

SpecGeo == InitGeo /\ [][GeoNext]_vars

(***************************************************************************)
(* Claims on the cross-validator (checked under SpecGeo).                  *)
(***************************************************************************)
\* the returned points as the claim sees them: type (category) and position
ReturnedPointsOf(r) ==
    {nearbyPlacesResponses[r].results[j] : j \in 1..Len(nearbyPlacesResponses[r].results)}

ReturnedPoints == UNION {ReturnedPointsOf(r) : r \in 1..Len(nearbyPlacesResponses)}

Passed(i) == \E j \in 1..Len(geoOut) : geoOut[j].id = i

KmApart(a, b) == IF a >= b THEN a - b ELSE b - a

PointWithin(i, t, maxKm) ==
    \E pt \in ReturnedPoints :
        pt.type = t /\ KmApart(properties[i].km, pt.km) <= maxKm

\* C3: in crossValidateResults, with points returned, a record that has
\* coordinates passes under OR iff some returned point is within 10 km
\* (inclusive), and under AND iff every category present among the returned
\* points has a point within 10 km.
C3_AndOrCombination ==
    (geoPc = "crossValidated" /\ ReturnedPoints # {}) =>
        \A i \in 1..Len(properties) :
            properties[i].hasCoords =>
                (Passed(i) <=>
                    IF logicalOperator = "AND"
                    THEN \A t \in {pt.type : pt \in ReturnedPoints} : PointWithin(i, t, 10)
                    ELSE \E t \in {pt.type : pt \in ReturnedPoints} : PointWithin(i, t, 10))

\* C3's case: under AND, a record with a hospital within 10 km (at exactly
\* 10 km) whose only school is beyond 10 km is excluded.
C3_Witness ==
    /\ geoPc = "crossValidated"
    /\ logicalOperator = "AND"
    /\ \E i \in 1..Len(properties) :
            /\ properties[i].hasCoords
            /\ PointWithin(i, "hospital", 10) /\ ~PointWithin(i, "hospital", 9)
            /\ ~PointWithin(i, "school", 10)
            /\ \E pt \in ReturnedPoints : pt.type = "school"
            /\ ~Passed(i)

\* the other cases of C3: both categories within 10 km under AND, and only
\* one of two within 10 km under OR; the record passes in both
C3_ReachBothWithinAnd ==
    /\ geoPc = "crossValidated"
    /\ logicalOperator = "AND"
    /\ \E i \in 1..Len(properties) :
            /\ properties[i].hasCoords
            /\ PointWithin(i, "hospital", 10) /\ PointWithin(i, "school", 10)
            /\ Passed(i)

C3_ReachOneWithinOr ==
    /\ geoPc = "crossValidated"
    /\ logicalOperator = "OR"
    /\ \E i \in 1..Len(properties) :
            /\ properties[i].hasCoords
            /\ PointWithin(i, "hospital", 10) /\ ~PointWithin(i, "school", 10)
            /\ \E pt \in ReturnedPoints : pt.type = "school"
            /\ Passed(i)

\* C4 (as claimed): with a non-empty list of returned points, every record
\* without coordinates is in the output of both proximity filters.
C4_FailOpenNoCoordinates ==
    (geoPc # "input" /\ ReturnedPoints # {}) =>
        \A i \in 1..Len(properties) : ~properties[i].hasCoords => Passed(i)

\* C5 (as claimed): when the lookup of some requested amenity returned zero
\* points, crossValidateResults returns all input records.
C5_ZeroPointsForACategory ==
    (geoPc = "crossValidated" /\ \E r \in 1..Len(nearbyPlacesResponses) : ReturnedPointsOf(r) = {})
        => geoOut = properties

\* C5 (amended): when the lookups of all requested amenities together
\* returned zero points, crossValidateResults returns all input records, so
\* never an empty list for a non-empty input.
C5_ZeroPointsInBatch ==
    (geoPc = "crossValidated" /\ ReturnedPoints = {}) =>
        /\ geoOut = properties
        /\ (properties # <<>> => geoOut # <<>>)

C5_Witness ==
    /\ geoPc = "crossValidated"
    /\ Len(nearbyPlacesResponses) = 2
    /\ ReturnedPoints = {}
    /\ logicalOperator = "OR"
    /\ \E i \in 1..Len(properties) : properties[i].hasCoords
    /\ geoOut = properties

(***************************************************************************)
(* The agent registry and the agents' process methods.                     *)
(*                                                                         *)
(* `outcome` stands for what an agent's collaborators do during the call:  *)
(* "ok" (all return), "fail" (one throws; every agent catches and returns  *)
(* its own apology), "notFound" (findOne returns null).                    *)
(***************************************************************************)
Registry ==
    <<"ValidatorAgent", "FilterAgent", "MapsAgent", "PropertyAgent", "ResponseAgent">>

AgentNames == Range(Registry)

\* a capability name the language model may invent
UnknownAgent == "WeatherAgent"

requiredInputs(name) ==
    CASE name = "FilterAgent" -> <<"query">>
      [] name = "MapsAgent" -> <<"location", "amenities">>
      [] name = "PropertyAgent" -> <<"propertyId">>
      [] name = "ResponseAgent" -> <<"response", "data">>
      [] OTHER -> <<>>

\* the truth value of extractedInputs[key]; the bag has no response or data
\* key (the language model extracts parameters of the user's message)
hasInput(inputs, key) ==
    CASE key = "query" -> truthyQuery(inputs.query)
      [] key = "location" -> truthyLocation(inputs.location)
      [] key = "amenities" -> truthyAmenities(inputs.amenities)
      [] key = "logicalOperator" -> truthyOperator(inputs.logicalOperator)
      [] key = "propertyId" -> inputs.propertyId # ""
      [] OTHER -> FALSE

checkMissingInputs(agents, extractedInputs) ==
    Dedupe(SelectSeq(Flatten([i \in 1..Len(agents) |-> requiredInputs(agents[i])]),
                     LAMBDA input : ~hasInput(extractedInputs, input)))

\* the number of characters of a word of the model's vocabulary
WordLength(w) ==
    CASE w \in {"casa", "with"} -> 4
      [] w = "patio" -> 5
      [] OTHER -> 6

\* query.trim().length: the words and one blank between two words
RECURSIVE trimLength(_)
trimLength(q) ==
    IF q = <<>> THEN 0
    ELSE IF Len(q) = 1 THEN WordLength(q[1])
    ELSE WordLength(q[1]) + 1 + trimLength(Tail(q))

MinQueryLength == 10

\* validateInput: the names of the invalid fields, in the order of the checks
validateInput(data) ==
    (IF truthyLocation(data.location) /\ data.location.isArray
     THEN <<"location">> ELSE <<>>)
    \o (IF truthyAmenities(data.amenities)
           /\ (~data.amenities.isArray \/ Len(data.amenities.items) = 0)
        THEN <<"amenities">> ELSE <<>>)
    \o (IF truthyOperator(data.logicalOperator)
           /\ data.logicalOperator # "AND" /\ data.logicalOperator # "OR"
        THEN <<"logicalOperator">> ELSE <<>>)
    \o (IF truthyQuery(data.query) /\ trimLength(data.query) < MinQueryLength
        THEN <<"query">> ELSE <<>>)

ValidationOkResponse == "Input validation successful"
ClarificationResponse == "clarification written by the language model"
ClarificationFallback == "Por favor, proporciona mas detalles"

\* A plausible slip: the clarification is returned without missingInputs
\* (as the validator's own catch branch does).
ValidatorProcessNoMissing(data, outcome) ==
    [response |-> IF validateInput(data) = <<>> THEN ValidationOkResponse
                  ELSE ClarificationResponse,
     mongoQuery |-> Undefined,
     data |-> [validationResult |-> validateInput(data)],
     missingInputs |-> <<>>]

\* ValidatorAgentService.process; `outcome` is whether the language model
\* writes the clarification ("ok") or the fallback text is used
ValidatorProcess(data, outcome) ==
    LET invalidFields == validateInput(data)
    IN  IF invalidFields = <<>>
        THEN [response |-> ValidationOkResponse, mongoQuery |-> Undefined,
              data |-> [validatedInput |-> data, validationResult |-> invalidFields],
              missingInputs |-> <<>>]
        ELSE [response |-> IF outcome = "ok" THEN ClarificationResponse
                           ELSE ClarificationFallback,
              mongoQuery |-> Undefined,
              data |-> [validationResult |-> invalidFields, originalInput |-> data],
              missingInputs |-> invalidFields]

\* the data bag of a FilterAgent answer besides the filter
FilterData ==
    [extraActions |-> "extraActions", sort |-> "sort", projection |-> "projection"]

\* A plausible slip: the catch of FilterAgentService.process apologises but
\* leaves the error out of the data bag.
FilterProcessNoMarker(outcome) ==
    IF outcome = "ok"
    THEN [response |-> "filter message", mongoQuery |-> Fragment(1),
          data |-> FilterData, missingInputs |-> <<>>]
    ELSE [response |-> "Lo siento, tuve un problema procesando tu solicitud de busqueda",
          mongoQuery |-> Undefined, data |-> NoData, missingInputs |-> <<>>]

\* FilterAgentService.process: on success the output always carries a
\* non-empty mongoQuery (the model's, or the basic query built instead)
FilterProcess(outcome) ==
    IF outcome = "ok"
    THEN [response |-> "filter message", mongoQuery |-> Fragment(1),
          data |-> FilterData, missingInputs |-> <<>>]
    ELSE [response |-> "Lo siento, tuve un problema procesando tu solicitud de busqueda",
          mongoQuery |-> Undefined, data |-> [error |-> "filter failure"],
          missingInputs |-> <<>>]

\* what a lookup finds for an amenity: nothing, a place at 10 km from the
\* records, or a place at 11 km
Findings == {"none", "near", "far"}
Worlds == [{"hospital", "school"} -> Findings]
NoWorld == [a \in {"hospital", "school"} |-> "none"]

findByLocation(amenity, world) ==
    [results |->
        IF world[amenity] = "none" THEN <<>>
        ELSE <<[type |-> amenity, km |-> IF world[amenity] = "near" THEN 10 ELSE 11]>>]

\* does MapsAgentService.process get as far as its lookups
mapsLooksUp(data) ==
    /\ data.amenities.isArray
    /\ truthyLocation(data.location)
    /\ Len(data.amenities.items) > 0

\* MapsAgentService.process
MapsProcess(data, outcome, world) ==
    LET amenities == data.amenities.items
        failed == [response |-> "Lo siento, tuve un problema procesando tu solicitud de lugares",
                   mongoQuery |-> Undefined, data |-> [error |-> "maps failure"],
                   missingInputs |-> <<>>]
    IN  IF truthyAmenities(data.amenities) /\ ~data.amenities.isArray
        THEN failed     \* amenities.join is not a function
        ELSE IF ~mapsLooksUp(data)
        THEN [response |-> "Necesito mas informacion para buscar lugares cercanos.",
              mongoQuery |-> Undefined, data |-> NoData,
              missingInputs |->
                 (IF ~truthyLocation(data.location) THEN <<"location">> ELSE <<>>)
                 \o (IF Len(amenities) = 0 THEN <<"amenities">> ELSE <<>>)]
        ELSE IF outcome = "ok"
        THEN [response |-> "maps message", mongoQuery |-> Undefined,
              data |-> [nearbyPlaces |->
                            [i \in 1..Len(amenities) |-> findByLocation(amenities[i], world)],
                        location |-> data.location,
                        amenities |-> data.amenities,
                        logicalOperator |->
                            IF truthyOperator(data.logicalOperator)
                            THEN data.logicalOperator ELSE "OR"],
              missingInputs |-> <<>>]
        ELSE failed

\* PropertyAgentService.process
PropertyProcess(data, outcome) ==
    IF data.propertyId = ""
    THEN [response |-> "Necesito saber de que propiedad estas hablando.",
          mongoQuery |-> Undefined, data |-> NoData,
          missingInputs |-> <<"propertyId">>]
    ELSE IF outcome = "notFound"
    THEN [response |-> "No pude encontrar esa propiedad.", mongoQuery |-> Undefined,
          data |-> [error |-> "Property not found"], missingInputs |-> <<>>]
    ELSE IF outcome = "ok"
    THEN [response |-> "property message", mongoQuery |-> Undefined,
          data |-> [property |-> data.propertyId], missingInputs |-> <<>>]
    ELSE [response |-> "Lo siento, tuve un problema procesando tu solicitud sobre esta propiedad.",
          mongoQuery |-> Undefined, data |-> [error |-> "property failure"],
          missingInputs |-> <<>>]

\* ResponseAgentService.process with no response in its context: the
\* user's message comes back as the response, with an empty data bag
ResponseProcess(data) ==
    [response |-> "the user's message", mongoQuery |-> Undefined,
     data |-> NoData, missingInputs |-> <<>>]

\* agent.process(input) of the registered agent of that name
process(name, data, outcome, world) ==
    CASE name = "ValidatorAgent" -> ValidatorProcess(data, outcome)
      [] name = "FilterAgent" -> FilterProcess(outcome)
      [] name = "MapsAgent" -> MapsProcess(data, outcome, world)
      [] name = "PropertyAgent" -> PropertyProcess(data, outcome)
      [] OTHER -> ResponseProcess(data)

\* what the call adds to the log: the agent, then the collaborators it asks
callsOf(name, data) ==
    <<name>>
    \o (IF name = "MapsAgent" /\ mapsLooksUp(data)
        THEN [i \in 1..Len(data.amenities.items) |-> "findByLocation"] ELSE <<>>)
    \o (IF name = "PropertyAgent" /\ data.propertyId # "" THEN <<"findOne">> ELSE <<>>)

OutcomesOf(name) ==
    IF name = "PropertyAgent" THEN {"ok", "fail", "notFound"} ELSE {"ok", "fail"}

WorldsOf(name) == IF name = "MapsAgent" THEN Worlds ELSE {NoWorld}

(***************************************************************************)
(* One turn of AgentOrchestratorService.processQuery.                      *)
(***************************************************************************)
MaxPlanLen == 2

\* what the language model may answer to the decision prompt
Plans == SeqsUpTo(AgentNames \cup {UnknownAgent}, MaxPlanLen)

TurnQueries == {NoQuery, <<"casa">>, <<"quiero", "casa", "grande">>}
TurnLocations ==
    {NoLocation, [isArray |-> FALSE, names |-> <<"Guadalajara">>],
     [isArray |-> TRUE, names |-> <<"Guadalajara", "Zapopan">>]}
TurnAmenities ==
    {NoAmenities, [isArray |-> TRUE, items |-> <<>>],
     [isArray |-> TRUE, items |-> <<"hospital", "school">>]}
TurnOperators == {NoOperator, "AND", "XOR"}

TurnInputs ==
    [query : TurnQueries, location : TurnLocations, amenities : TurnAmenities,
     logicalOperator : TurnOperators, propertyId : {"", "p1"}]

TurnResponses ==
    [agents : Plans, extractedInputs : TurnInputs, isContinuation : BOOLEAN]

\* the context an earlier turn of the session left: a search through
\* FilterAgent alone, whose filter was persisted
EarlierDecision ==
    [agents |-> <<"FilterAgent">>,
     extractedInputs |->
        [query |-> <<"quiero", "casa">>,
         location |-> [isArray |-> FALSE, names |-> <<"Zapopan">>],
         amenities |-> [isArray |-> TRUE, items |-> <<"hospital">>],
         logicalOperator |-> NoOperator, propertyId |-> ""],
     isContinuation |-> FALSE]

PriorContexts ==
    {NoContext, updateSearchContext(NoContext, EarlierDecision, Fragment(1))}

\* what executeQuery returns: the records matching the filter
QueryResults ==
    {<<>>,
     <<[id |-> 1, hasCoords |-> TRUE, km |-> 0]>>,
     <<[id |-> 1, hasCoords |-> TRUE, km |-> 0], [id |-> 2, hasCoords |-> FALSE, km |-> 0]>>}

NoAgentsOutput ==
    [response |-> NoAgentsResponse, mongoQuery |-> Undefined,
     data |-> [error |-> "No agents available"], missingInputs |-> <<>>]

NotAvailableOutput ==
    [response |-> NoAgentsResponse, mongoQuery |-> Undefined,
     data |-> [error |-> "Required agents not available"], missingInputs |-> <<>>]

\* A plausible slip: the catch of processQuery lets the error through, and the
\* caller gets no output.
ErrorOutputEscapes == NoOutput

\* the catch of processQuery
ErrorOutput ==
    [response |-> ErrorResponse, mongoQuery |-> Undefined,
     data |-> [error |-> "message"], missingInputs |-> <<>>]

\* step 9: the request for the missing inputs
MissingInputsOutput(agentDecision, missingInputs) ==
    [response |-> "Claro! Para ayudarte mejor, necesito saber ...",
     mongoQuery |-> Undefined,
     data |-> [agentDecision |-> agentDecision, missingInputs |-> missingInputs],
     missingInputs |-> missingInputs]

\* A plausible slip: a name unknown to the registry makes the plan unusable.
selectAgentsAllOrNothing(agents) ==
    IF Range(agents) \subseteq AgentNames THEN agents ELSE <<>>

\* step 7: the registered agents the plan names, in the plan's order
selectAgents(agents) == SelectSeq(agents, LAMBDA name : name \in AgentNames)

\* A plausible slip: step 6 is missing, every plan goes to processWithAgents.
useMapsFirstNever(agentDecision) == FALSE

\* steps 5-6: MapsAgent is planned and location and amenities are there
useMapsFirst(agentDecision) ==
    /\ "MapsAgent" \in Range(agentDecision.agents)
    /\ truthyLocation(agentDecision.extractedInputs.location)
    /\ truthyAmenities(agentDecision.extractedInputs.amenities)

\* processWithAgents, lines 354-367: FilterAgent, MapsAgent, then the others
orderAgents(agents) ==
    (IF "FilterAgent" \in Range(agents) THEN <<"FilterAgent">> ELSE <<>>)
    \o (IF "MapsAgent" \in Range(agents) THEN <<"MapsAgent">> ELSE <<>>)
    \o SelectSeq(agents, LAMBDA name : name # "FilterAgent" /\ name # "MapsAgent")

TurnInit ==
    /\ pc = "received"
    /\ calls = <<>>
    /\ orderedAgents = <<>>
    /\ result = NoOutput
    /\ planning = "pending"
    /\ searchContext \in PriorContexts
    /\ onceContext = searchContext
    /\ newInputs = NoInputs
    /\ decision = NoDecision
    /\ onceDecision = NoDecision
    /\ mergePc = "idle"

\* a JSON object without the fields of a decision: determineAgents fills in
\* agents [], extractedInputs {} and isContinuation false (lines 265-270)
MalformedResponse ==
    [agents |-> <<>>, extractedInputs |-> NoInputs, isContinuation |-> FALSE]

\* steps 1-3: read the context, ask the language model for the decision
\* (merged with the context on a continuation), persist the decision.  Any
\* of the three may throw; processQuery's catch answers with its apology.
Decide ==
    /\ pc = "received"
    /\ \E answer \in TurnResponses,
          outcome \in {"ok", "malformed", "readError", "planningError", "storeError"} :
          LET response == IF outcome = "malformed" THEN MalformedResponse ELSE answer
              agentDecision == determineAgents(searchContext, response)
          IN  /\ planning' = IF outcome \in {"ok", "storeError"} THEN "ok"
                             ELSE IF outcome = "malformed" THEN "malformed"
                             ELSE IF outcome = "planningError" THEN "failed"
                             ELSE "pending"
              /\ IF outcome \in {"ok", "malformed"}
                 THEN /\ newInputs' = response.extractedInputs
                      /\ decision' = agentDecision
                      /\ searchContext' =
                             updateSearchContext(searchContext, agentDecision, Undefined)
                      /\ calls' = <<"getSearchContext", "determineAgents", "updateSearchContext">>
                      /\ pc' = "planned"
                      /\ result' = result
                 ELSE /\ calls' =
                             IF outcome = "readError" THEN <<"getSearchContext">>
                             ELSE IF outcome = "planningError"
                             THEN <<"getSearchContext", "determineAgents">>
                             ELSE <<"getSearchContext", "determineAgents", "updateSearchContext">>
                      /\ pc' = "done"
                      /\ result' = ErrorOutput
                      /\ UNCHANGED <<newInputs, decision, searchContext>>
    /\ UNCHANGED <<onceDecision, onceContext, mergePc, orderedAgents, geoVars, sortVars, lookupVars, combineVars>>

\* step 4: the validator; a flagged field ends the turn with the
\* validator's output
Validate ==
    /\ pc = "planned"
    /\ \E outcome \in {"ok", "fail"} :
          LET validationResult == ValidatorProcess(decision.extractedInputs, outcome)
          IN  IF "ValidatorAgent" \in AgentNames
              THEN /\ calls' = Append(calls, "ValidatorAgent")
                   /\ IF Len(validationResult.missingInputs) > 0
                      THEN pc' = "done" /\ result' = validationResult
                      ELSE pc' = "validated" /\ result' = result
              ELSE pc' = "validated" /\ UNCHANGED <<calls, result>>
    /\ UNCHANGED <<mergeVars, orderedAgents, geoVars, sortVars, lookupVars, planning, combineVars>>

\* steps 5-9 and the head of processWithAgents: the maps-first flow when
\* MapsAgent is planned and location and amenities are there; otherwise the
\* registered agents of the plan, their required inputs, their order
Route ==
    /\ pc = "validated"
    /\ LET inputs == decision.extractedInputs
           selectedAgents == selectAgents(decision.agents)
           missingInputs == checkMissingInputs(selectedAgents, inputs)
       IN  IF useMapsFirst(decision)
           THEN pc' = "mapsFirst" /\ UNCHANGED <<result, orderedAgents>>
           ELSE IF Len(selectedAgents) = 0
           THEN pc' = "done" /\ result' = NoAgentsOutput /\ UNCHANGED orderedAgents
           ELSE IF Len(missingInputs) > 0
           THEN /\ pc' = "done"
                /\ result' = MissingInputsOutput(decision, missingInputs)
                /\ UNCHANGED orderedAgents
           ELSE IF Len(orderAgents(selectedAgents)) = 0
           THEN pc' = "done" /\ result' = NoAgentsOutput /\ UNCHANGED orderedAgents
           ELSE /\ pc' = "chaining"
                /\ orderedAgents' = orderAgents(selectedAgents)
                /\ result' = result
    /\ UNCHANGED <<calls, mergeVars, geoVars, sortVars, lookupVars, planning, combineVars>>

\* processWithAgents, line 392: the special case FilterAgent + MapsAgent
specialCase(ordered, inputs) ==
    /\ "FilterAgent" \in Range(ordered)
    /\ "MapsAgent" \in Range(ordered)
    /\ Len(ordered) = 2
    /\ truthyLocation(inputs.location)
    /\ truthyAmenities(inputs.amenities)

\* processWithAgents: one agent of orderedAgents runs.  A single agent's
\* output is returned as it is; the first of several gives currentResult,
\* each later one is combined into it.  The special case runs FilterAgent,
\* the filter's query and MapsAgent in one go.  A later agent's context is
\* the extracted inputs spread with the data of the earlier agents, which
\* holds none of the keys the agents read from the extracted inputs.
RunAgent ==
    /\ pc = "chaining"
    /\ combineIdx < Len(orderedAgents)
    /\ LET input == decision.extractedInputs
       IN  IF combineIdx = 0 /\ specialCase(orderedAgents, input)
           THEN \E filterOutcome \in {"ok", "fail"}, queryOutcome \in {"ok", "fail"},
                   props \in QueryResults, mapsOutcome \in {"ok", "fail"},
                   world \in Worlds, synthesis \in {"ok", "fail"} :
                   LET answered == FilterProcess(filterOutcome)
                       queried == answered.mongoQuery # Undefined
                       filterResult ==
                           IF queried /\ queryOutcome = "ok"
                           THEN [answered EXCEPT
                                    !.data = Override(@, [properties |-> props])]
                           ELSE answered
                       mapsResult == MapsProcess(input, mapsOutcome, world)
                   IN  /\ calls' = calls \o <<"FilterAgent">>
                                     \o (IF queried THEN <<"executeQuery">> ELSE <<>>)
                                     \o callsOf("MapsAgent", input)
                       /\ agentOutputs' = <<filterResult, mapsResult>>
                       /\ currentResult' =
                              combineResults(<<filterResult, mapsResult>>, synthesis)
                       /\ combineIdx' = 2
                       /\ pc' = "chained"
           ELSE LET name == orderedAgents[combineIdx + 1]
                IN  \E outcome \in OutcomesOf(name), world \in WorldsOf(name),
                       synthesis \in {"ok", "fail"} :
                       LET agentResult == process(name, input, outcome, world)
                       IN  /\ calls' = calls \o callsOf(name, input)
                           /\ agentOutputs' = Append(agentOutputs, agentResult)
                           /\ currentResult' =
                                  IF combineIdx = 0 THEN agentResult
                                  ELSE combineResults(<<currentResult, agentResult>>,
                                                      synthesis)
                           /\ combineIdx' = combineIdx + 1
                           /\ pc' = IF combineIdx + 1 = Len(orderedAgents)
                                    THEN "chained" ELSE "chaining"
    /\ UNCHANGED <<mergeVars, orderedAgents, result, geoVars, sortVars, lookupVars, planning>>

\* step 11 and the return: a result with a mongoQuery is persisted first
Finish ==
    /\ pc = "chained"
    /\ \E outcome \in {"ok", "storeError"} :
          IF currentResult.mongoQuery # Undefined
          THEN /\ calls' = Append(calls, "updateSearchContext")
               /\ IF outcome = "ok"
                  THEN /\ searchContext' =
                              updateSearchContext(searchContext, decision,
                                                  currentResult.mongoQuery)
                       /\ result' = currentResult
                  ELSE /\ result' = ErrorOutput
                       /\ UNCHANGED searchContext
          ELSE /\ result' = currentResult
               /\ UNCHANGED <<calls, searchContext>>
    /\ pc' = "done"
    /\ UNCHANGED <<newInputs, decision, onceDecision, onceContext, mergePc,
                   orderedAgents, geoVars, sortVars, lookupVars, planning, combineVars>>

\* the context processMapsFirst hands to the validator and to MapsAgent
mapsInput(inputs) ==
    [NoInputs EXCEPT
        !.location = inputs.location,
        !.amenities = inputs.amenities,
        !.logicalOperator =
            IF truthyOperator(inputs.logicalOperator) THEN inputs.logicalOperator
            ELSE "OR"]

\* processMapsFirst, lines 625-665: both agents must be registered; the
\* validator runs on location, amenities and operator
MapsFirstValidate ==
    /\ pc = "mapsFirst"
    /\ \E outcome \in {"ok", "fail"} :
          LET validationResult ==
                  ValidatorProcess(mapsInput(decision.extractedInputs), outcome)
          IN  IF ~({"MapsAgent", "FilterAgent"} \subseteq AgentNames)
              THEN pc' = "done" /\ result' = NotAvailableOutput /\ UNCHANGED calls
              ELSE /\ calls' = Append(calls, "ValidatorAgent")
                   /\ IF Len(validationResult.missingInputs) > 0
                      THEN pc' = "done" /\ result' = validationResult
                      ELSE pc' = "mapsFirstValidated" /\ result' = result
    /\ UNCHANGED <<mergeVars, orderedAgents, geoVars, sortVars, lookupVars, planning, combineVars>>

\* A plausible slip: the flow goes on to FilterAgent whatever MapsAgent gave.
MapsFirstMapsGoesOn ==
    /\ pc = "mapsFirstValidated"
    /\ \E outcome \in {"ok", "fail"}, world \in Worlds :
          LET input == mapsInput(decision.extractedInputs)
              mapsResult == MapsProcess(input, outcome, world)
          IN  /\ calls' = calls \o callsOf("MapsAgent", input)
              /\ agentOutputs' = <<mapsResult>>
              /\ pc' = "mapsFirstLookedUp" /\ result' = result
    /\ UNCHANGED <<mergeVars, orderedAgents, geoVars, sortVars, lookupVars, planning, currentResult, combineIdx>>

\* lines 667-679 and 760: MapsAgent; without nearbyPlaces its output is
\* the turn's result
MapsFirstMaps ==
    /\ pc = "mapsFirstValidated"
    /\ \E outcome \in {"ok", "fail"}, world \in Worlds :
          LET input == mapsInput(decision.extractedInputs)
              mapsResult == MapsProcess(input, outcome, world)
          IN  /\ calls' = calls \o callsOf("MapsAgent", input)
              /\ agentOutputs' = <<mapsResult>>
              /\ IF "nearbyPlaces" \in DOMAIN mapsResult.data
                 THEN pc' = "mapsFirstLookedUp" /\ result' = result
                 ELSE pc' = "done" /\ result' = mapsResult
    /\ UNCHANGED <<mergeVars, orderedAgents, geoVars, sortVars, lookupVars, planning, currentResult, combineIdx>>

\* lines 683-697 and 756: FilterAgent; without a mongoQuery its output is
\* the turn's result
MapsFirstFilter ==
    /\ pc = "mapsFirstLookedUp"
    /\ \E outcome \in {"ok", "fail"} :
          LET filterResult == FilterProcess(outcome)
          IN  /\ calls' = Append(calls, "FilterAgent")
              /\ agentOutputs' = Append(agentOutputs, filterResult)
              /\ IF filterResult.mongoQuery # Undefined
                 THEN pc' = "mapsFirstFiltered" /\ result' = result
                 ELSE pc' = "done" /\ result' = filterResult
    /\ UNCHANGED <<mergeVars, orderedAgents, geoVars, sortVars, lookupVars, planning, currentResult, combineIdx>>

\* A plausible slip: validatedCount counts the records of the store.
MapsFirstExecuteQueryCountsAll ==
    /\ pc = "mapsFirstFiltered"
    /\ \E outcome \in {"ok", "fail"}, props \in QueryResults :
          LET mapsResult == agentOutputs[1]
              filterResult == agentOutputs[2]
              inputs == decision.extractedInputs
              validatedProperties ==
                  crossValidateResults(props, mapsResult.data.nearbyPlaces,
                      IF truthyOperator(inputs.logicalOperator)
                      THEN inputs.logicalOperator ELSE "OR")
          IN  /\ calls' = Append(calls, "executeQuery")
              /\ result' =
                     IF outcome = "ok"
                     THEN [response |-> filterResult.response,
                           mongoQuery |-> filterResult.mongoQuery,
                           data |-> Override(Override(filterResult.data, mapsResult.data),
                                        [properties |-> validatedProperties,
                                         originalProperties |-> props,
                                         validatedCount |-> Len(props),
                                         totalCount |-> Len(props)]),
                           missingInputs |-> <<>>]
                     ELSE filterResult
    /\ pc' = "done"
    /\ UNCHANGED <<mergeVars, orderedAgents, geoVars, sortVars, lookupVars, planning, combineVars>>

\* lines 699-752: the filter's query, the cross-validation of its records
\* against the places, the combined result; a failing query gives the
\* filter's output
MapsFirstExecuteQuery ==
    /\ pc = "mapsFirstFiltered"
    /\ \E outcome \in {"ok", "fail"}, props \in QueryResults :
          LET mapsResult == agentOutputs[1]
              filterResult == agentOutputs[2]
              inputs == decision.extractedInputs
              validatedProperties ==
                  crossValidateResults(props, mapsResult.data.nearbyPlaces,
                      IF truthyOperator(inputs.logicalOperator)
                      THEN inputs.logicalOperator ELSE "OR")
          IN  /\ calls' = Append(calls, "executeQuery")
              /\ result' =
                     IF outcome = "ok"
                     THEN [response |-> filterResult.response,
                           mongoQuery |-> filterResult.mongoQuery,
                           data |-> Override(Override(filterResult.data, mapsResult.data),
                                        [properties |-> validatedProperties,
                                         originalProperties |-> props,
                                         validatedCount |-> Len(validatedProperties),
                                         totalCount |-> Len(props)]),
                           missingInputs |-> <<>>]
                     ELSE filterResult
    /\ pc' = "done"
    /\ UNCHANGED <<mergeVars, orderedAgents, geoVars, sortVars, lookupVars, planning, combineVars>>

Next ==
    \/ Decide
    \/ Validate
    \/ Route
    \/ RunAgent
    \/ Finish
    \/ MapsFirstValidate
    \/ MapsFirstMaps
    \/ MapsFirstFilter
    \/ MapsFirstExecuteQuery

Init == TurnInit /\ GeoIdle /\ CombineIdle /\ SortIdle /\ LookupIdle

Spec == Init /\ [][Next]_vars

(***************************************************************************)
(* Claims on the turn (checked under Spec).                                *)
(***************************************************************************)
\* the calls of the turn after steps 1-4 (context read, decision, context
\* write, validator)
PipelineCalls == SubSeq(calls, 5, Len(calls))

Count(name, log) == Len(SelectSeq(log, LAMBDA c : c = name))

\* the position of the first call of that name, 0 when there is none
FirstCall(name) ==
    IF \E i \in 1..Len(calls) : calls[i] = name
    THEN CHOOSE i \in 1..Len(calls) :
            calls[i] = name /\ \A j \in 1..(i - 1) : calls[j] # name
    ELSE 0

Flagged == validateInput(decision.extractedInputs) # <<>>

Rejection ==
    /\ pc = "done"
    /\ result.response \in {ClarificationResponse, ClarificationFallback}

BehindTheValidator ==
    {"executeQuery", "findByLocation", "FilterAgent", "MapsAgent", "PropertyAgent"}

\* C1: in a turn whose extracted inputs the validator flags, the turn ends
\* right after the validator with the validator's clarification, whose
\* missingInputs are exactly the invalid field names, and neither the record
\* store nor the place lookup nor FilterAgent, MapsAgent or PropertyAgent is
\* called; a turn that ends with a clarification has called none of them.
C1_MissingInputShortCircuit ==
    /\ (Flagged /\ pc \notin {"received", "planned"}) =>
            /\ Rejection
            /\ result.missingInputs = validateInput(decision.extractedInputs)
            /\ calls = <<"getSearchContext", "determineAgents", "updateSearchContext",
                         "ValidatorAgent">>
    /\ (Flagged \/ Rejection) => Range(calls) \cap BehindTheValidator = {}

\* C1's case: two fields flagged (an array of locations, a query that is
\* too short) in a plan that asks for FilterAgent and MapsAgent
C1_Witness ==
    /\ pc = "done"
    /\ decision.agents = <<"FilterAgent", "MapsAgent">>
    /\ result.missingInputs = <<"location", "query">>
    /\ Range(calls) \cap BehindTheValidator = {}

\* the plan selects exactly FilterAgent and MapsAgent, with location and
\* amenities, and validation passed
FilterAndMapsPlanned ==
    /\ Range(decision.agents) = {"FilterAgent", "MapsAgent"}
    /\ truthyLocation(decision.extractedInputs.location)
    /\ truthyAmenities(decision.extractedInputs.amenities)
    /\ ~Flagged
    /\ pc \notin {"received", "planned"}

Executed(name) == Count(name, PipelineCalls)

\* C8 (as claimed): in one turn each registered agent's process is invoked
\* at most once.
C8_AtMostOncePerAgent ==
    \A name \in AgentNames : Count(name, calls) <= 1

\* the agents (the validator left aside) the pipeline ran, in order
ExecutedAgents ==
    SelectSeq(PipelineCalls, LAMBDA c : c \in AgentNames \ {"ValidatorAgent"})

\* filter first, then maps, then the others in plan order, each name once
CanonicalAgents ==
    LET planned == SelectSeq(decision.agents,
                       LAMBDA name : name \in AgentNames \ {"ValidatorAgent"})
    IN  Dedupe((IF "FilterAgent" \in Range(planned) THEN <<"FilterAgent">> ELSE <<>>)
               \o (IF "MapsAgent" \in Range(planned) THEN <<"MapsAgent">> ELSE <<>>)
               \o SelectSeq(planned,
                      LAMBDA name : name # "FilterAgent" /\ name # "MapsAgent"))

IsPrefix(s, t) == Len(s) <= Len(t) /\ s = SubSeq(t, 1, Len(s))

\* C9 (as claimed): the agents run in the canonical order of the plan's
\* registered agents: FilterAgent, MapsAgent, then the others in plan order,
\* each name once.
C9_CanonicalOrder == IsPrefix(ExecutedAgents, CanonicalAgents)

RegisteredPlanned == Range(decision.agents) \cap AgentNames

\* C10: when a plan names registered agents together with unknown names,
\* the unknown names are dropped: nothing is called under an unknown name,
\* the turn does not end with 'No agents available', processWithAgents gets
\* the plan's registered agents in canonical order, and when it has run
\* them every registered agent of the plan was called and the merged result
\* is returned (unless the write of the context fails at step 11).
C10_UnknownNamesDropped ==
    (UnknownAgent \in Range(decision.agents) /\ RegisteredPlanned # {}) =>
        /\ UnknownAgent \notin Range(calls)
        /\ result # NoAgentsOutput
        /\ pc \in {"chaining", "chained"} =>
                /\ orderedAgents # <<>>
                /\ Range(orderedAgents) = RegisteredPlanned
        /\ pc = "chained" => \A name \in RegisteredPlanned : Executed(name) >= 1
        /\ (pc = "done" /\ combineIdx > 0) =>
                /\ \A name \in RegisteredPlanned : Executed(name) >= 1
                /\ result \in {currentResult, ErrorOutput}

\* C10's case: an unknown name before FilterAgent; FilterAgent ran and its
\* output, filter included, is the turn's result
C10_Witness ==
    /\ pc = "done"
    /\ decision.agents = <<UnknownAgent, "FilterAgent">>
    /\ PipelineCalls = <<"FilterAgent", "updateSearchContext">>
    /\ result = FilterProcess("ok")

\* one call of updateSearchContext seen from outside: a field that had a
\* value still has one, and it changed only if the turn supplied it
KeepsField(had, has, changed, supplied) ==
    /\ had => has
    /\ changed => supplied

\* C11: in every call of updateSearchContext, each of query, location,
\* amenities, operator and last filter that had a value keeps a value, and
\* changes only when the turn's input (the language model's extracted
\* inputs; for the filter, the pipeline's result) supplies a value for it.
C11_Step ==
    /\ KeepsField(truthyQuery(searchContext.query), truthyQuery(searchContext'.query),
           searchContext'.query # searchContext.query, truthyQuery(newInputs'.query))
    /\ KeepsField(truthyLocation(searchContext.location),
           truthyLocation(searchContext'.location),
           searchContext'.location # searchContext.location,
           truthyLocation(newInputs'.location))
    /\ KeepsField(truthyAmenities(searchContext.amenities),
           truthyAmenities(searchContext'.amenities),
           searchContext'.amenities # searchContext.amenities,
           truthyAmenities(newInputs'.amenities))
    /\ KeepsField(truthyOperator(searchContext.logicalOperator),
           truthyOperator(searchContext'.logicalOperator),
           searchContext'.logicalOperator # searchContext.logicalOperator,
           truthyOperator(newInputs'.logicalOperator))
    /\ KeepsField(searchContext.mongoQuery # Undefined,
           searchContext'.mongoQuery # Undefined,
           searchContext'.mongoQuery # searchContext.mongoQuery,
           pc = "chained" /\ currentResult.mongoQuery # Undefined)

C11_MonotonicContext == [][C11_Step]_vars

\* C11's case: after an earlier turn left query, location, amenities and
\* filter, a new search (no continuation) that names only a new query and
\* an operator has replaced the query, set the operator and kept the rest
C11_Witness ==
    /\ pc = "planned"
    /\ onceContext.exists
    /\ ~decision.isContinuation
    /\ ~truthyLocation(newInputs.location) /\ ~truthyAmenities(newInputs.amenities)
    /\ searchContext.query = <<"quiero", "casa", "grande">>
    /\ searchContext.query # onceContext.query
    /\ searchContext.logicalOperator = "AND"
    /\ searchContext.location = onceContext.location
    /\ searchContext.amenities = onceContext.amenities
    /\ searchContext.mongoQuery = onceContext.mongoQuery
    /\ truthyLocation(searchContext.location)

(***************************************************************************)
(* Claims on the continuation merge of one turn (checked under SpecMerge): *)
(* in the state after MergeTurn, onceContext is the context the turn read, *)
(* newInputs what the language model extracted, decision.extractedInputs   *)
(* the merged parameters.                                                  *)
(***************************************************************************)
NoDuplicates(items) == \A i, j \in 1..Len(items) : items[i] = items[j] => i = j

HasFreshWord(q) == \E i \in 1..Len(q) : q[i] \in FreshWords

\* the set-union part of C12 alone
C12_AmenitiesAsSets ==
    mergePc = "merged" =>
        Range(decision.extractedInputs.amenities.items) =
            Range(onceContext.amenities.items) \cup Range(newInputs.amenities.items)

\* C12 (as claimed): on a continuation with a prior context, the merged
\* location is the new one if supplied and the prior one otherwise, the
\* same for the operator, the merged amenities are the duplicate-free union
\* of the prior and the new list, and a new text without location is
\* appended to the prior query while the prior location is kept.
C12_ContinuationMerge ==
    mergePc = "merged" =>
        LET merged == decision.extractedInputs
        IN  /\ merged.location =
                   IF truthyLocation(newInputs.location) THEN newInputs.location
                   ELSE onceContext.location
            /\ merged.logicalOperator =
                   IF truthyOperator(newInputs.logicalOperator)
                   THEN newInputs.logicalOperator ELSE onceContext.logicalOperator
            /\ Range(merged.amenities.items) =
                   Range(onceContext.amenities.items) \cup Range(newInputs.amenities.items)
            /\ NoDuplicates(merged.amenities.items)
            /\ (/\ truthyQuery(onceContext.query) /\ truthyQuery(newInputs.query)
                /\ ~HasFreshWord(newInputs.query)
                /\ ~truthyLocation(newInputs.location))
                   => /\ merged.query = onceContext.query \o newInputs.query
                      /\ merged.location = onceContext.location

\* in the state after MergeTurn: both the prior context and the new turn
\* have a query, so that determineAgents calls combineQueries
QueriesCombined ==
    /\ mergePc = "merged"
    /\ truthyQuery(onceContext.query)
    /\ truthyQuery(newInputs.query)

\* C13 (as claimed): the merged query is the new text alone whenever the new
\* text contains a starting-fresh word, and the prior text followed by the
\* new text in every other case.
C13_FreshOrAppend ==
    QueriesCombined =>
        decision.extractedInputs.query =
            IF HasFreshWord(newInputs.query) THEN newInputs.query
            ELSE onceContext.query \o newInputs.query

\* C13 (amended): the merged query is the new text alone when the new text
\* contains a starting-fresh word and does not start with a continuation
\* phrase, and the prior text followed by the new text in every other case
\* (so also when a text that starts with a continuation phrase contains a
\* starting-fresh word).
C13_ContinuationPhraseFirst ==
    QueriesCombined =>
        decision.extractedInputs.query =
            IF HasFreshWord(newInputs.query) /\ newInputs.query[1] \notin ContinuationWords
            THEN newInputs.query
            ELSE onceContext.query \o newInputs.query

\* C13's case: the new text starts with "also" and contains "busco"; it is
\* appended to the prior query
C13_Witness ==
    /\ QueriesCombined
    /\ onceContext.query = <<"quiero", "casa">>
    /\ newInputs.query = <<"also", "busco", "patio">>
    /\ decision.extractedInputs.query = <<"quiero", "casa", "also", "busco", "patio">>

\* the other cases: a starting-fresh text replaces, a plain text is appended
C13_ReachReplaced ==
    /\ QueriesCombined
    /\ onceContext.query = <<"casa">>
    /\ decision.extractedInputs.query = <<"quiero", "casa">>

C13_ReachAppended ==
    /\ QueriesCombined
    /\ onceContext.query = <<"quiero", "casa">>
    /\ decision.extractedInputs.query = <<"quiero", "casa", "casa">>

(***************************************************************************)
(* The validator on its own: ValidatorAgentService.process applied to a    *)
(* drawn parameter bag (newInputs), its output kept in result.             *)
(***************************************************************************)
\* the place types the validator's prompt gives as valid
RecognizedCategories == {"hospital", "park", "school"}

ValidatorQueries == {NoQuery, <<"casa">>, <<"quiero", "casa", "grande">>}
ValidatorLocations ==
    {NoLocation, [isArray |-> FALSE, names |-> <<"Guadalajara">>],
     [isArray |-> TRUE, names |-> <<>>],
     [isArray |-> TRUE, names |-> <<"Guadalajara", "Zapopan">>]}
ValidatorAmenities ==
    {NoAmenities, [isArray |-> FALSE, items |-> <<"hospital">>],
     [isArray |-> TRUE, items |-> <<>>],
     [isArray |-> TRUE, items |-> <<"hospital", "park">>],
     [isArray |-> TRUE, items |-> <<"hospital", "unicorn">>]}
ValidatorOperators == {NoOperator, "AND", "OR", "XOR"}

ValidatorInputs ==
    [query : ValidatorQueries, location : ValidatorLocations,
     amenities : ValidatorAmenities, logicalOperator : ValidatorOperators,
     propertyId : {"", "p1"}]

ValidateInit ==
    /\ pc = "toValidate"
    /\ newInputs \in ValidatorInputs
    /\ result = NoOutput
    /\ calls = <<>>
    /\ orderedAgents = <<>>
    /\ planning = "pending"
    /\ searchContext = NoContext
    /\ decision = NoDecision
    /\ onceDecision = NoDecision
    /\ onceContext = NoContext
    /\ mergePc = "idle"

\* validatorAgent.process({additionalContext: newInputs})
ValidateBag ==
    /\ pc = "toValidate"
    /\ \E outcome \in {"ok", "fail"} : result' = ValidatorProcess(newInputs, outcome)
    /\ pc' = "checked"
    /\ UNCHANGED <<calls, orderedAgents, mergeVars, geoVars, sortVars, lookupVars, planning, combineVars>>

ValidateNext == ValidateBag

InitValidate == ValidateInit /\ GeoIdle /\ CombineIdle /\ SortIdle /\ LookupIdle

SpecValidate == InitValidate /\ [][ValidateNext]_vars

\* the query is the only signal of the bag
SoleSignal(data) ==
    /\ truthyQuery(data.query)
    /\ ~truthyLocation(data.location)
    /\ ~truthyAmenities(data.amenities)
    /\ ~truthyOperator(data.logicalOperator)
    /\ data.propertyId = ""

\* the fields the claim says are flagged
ClaimedInvalid(data) ==
    {f \in {"location", "amenities", "logicalOperator", "query"} :
        CASE f = "location" -> data.location.isArray
          [] f = "amenities" ->
                /\ data.amenities.isArray
                /\ \/ data.amenities.items = <<>>
                   \/ \E i \in 1..Len(data.amenities.items) :
                         data.amenities.items[i] \notin RecognizedCategories
          [] f = "logicalOperator" ->
                truthyOperator(data.logicalOperator)
                /\ data.logicalOperator \notin {"AND", "OR"}
          [] OTHER -> SoleSignal(data) /\ trimLength(data.query) < MinQueryLength}

\* C14 (as claimed): the validator flags location iff it is a list,
\* amenities iff the list is present and empty or has an entry that is not a
\* recognized category, logicalOperator iff present and neither AND nor OR,
\* query iff it is the sole signal and shorter than the minimum, and nothing
\* else.
C14_ValidationDecision ==
    pc = "checked" => Range(result.missingInputs) = ClaimedInvalid(newInputs)

\* the parts of C14 that hold: location and operator
C14_LocationAndOperator ==
    pc = "checked" =>
        Range(result.missingInputs) \cap {"location", "logicalOperator"}
            = ClaimedInvalid(newInputs) \cap {"location", "logicalOperator"}

\* ---------------------------------------------------------------------------
\* MapsService.sortAndLimitResults (SpecSort)
\* ---------------------------------------------------------------------------

MaxSortLen == 3

\* the default of the limit parameter
DefaultLimit == 20

\* an optional field of a PlaceResult that is absent (undefined or null)
Missing == -1

\* stands for Number.MAX_SAFE_INTEGER: larger than every distance drawn here
MaxSafeInteger == 2147483647

\* x || 0
orZero(x) == IF x = Missing THEN 0 ELSE x

\* x || Number.MAX_SAFE_INTEGER: 0 is falsy
orMaxSafeInteger(x) == IF x = Missing \/ x = 0 THEN MaxSafeInteger ELSE x

\* the comparator of the rating sort
compareRating(a, b, sortDesc) ==
    LET ratingA == orZero(a.rating)
        ratingB == orZero(b.rating)
        totalA == orZero(a.userRatingsTotal)
        totalB == orZero(b.userRatingsTotal)
    IN  IF ratingA = ratingB
        THEN IF sortDesc THEN totalB - totalA ELSE totalA - totalB
        ELSE IF sortDesc THEN ratingB - ratingA ELSE ratingA - ratingB

\* the comparator of the distance sort
compareDistance(a, b, sortDesc) ==
    LET distanceA == orMaxSafeInteger(a.distance)
        distanceB == orMaxSafeInteger(b.distance)
    IN  IF sortDesc THEN distanceB - distanceA ELSE distanceA - distanceB

compare(a, b, sortBy, sortDesc) ==
    IF sortBy = "rating" THEN compareRating(a, b, sortDesc)
    ELSE compareDistance(a, b, sortDesc)

\* Array.prototype.sort: a stable sort; x goes in front of the first element
\* that the comparator orders after it
RECURSIVE insertSorted(_, _, _, _)
insertSorted(sorted, x, sortBy, sortDesc) ==
    IF sorted = <<>> THEN <<x>>
    ELSE IF compare(Head(sorted), x, sortBy, sortDesc) > 0
         THEN <<x>> \o sorted
         ELSE <<Head(sorted)>> \o insertSorted(Tail(sorted), x, sortBy, sortDesc)

RECURSIVE sort(_, _, _)
sort(list, sortBy, sortDesc) ==
    IF list = <<>> THEN <<>>
    ELSE insertSorted(sort(SubSeq(list, 1, Len(list) - 1), sortBy, sortDesc),
                      list[Len(list)], sortBy, sortDesc)

\* Array.prototype.slice(0, limit) for a limit that is not negative
slice(list, limit) ==
    SubSeq(list, 1, IF limit < Len(list) THEN limit ELSE Len(list))

sortAndLimitResults(list, sortBy, sortDesc, limit) ==
    LET sorted ==
            IF sortBy = "rating" THEN sort(list, sortBy, sortDesc)
            ELSE IF /\ sortBy = "distance"
                    /\ \E i \in 1..Len(list) : list[i].distance # Missing
                 THEN sort(list, sortBy, sortDesc)
                 ELSE list
    IN  slice(sorted, limit)

SortRatings == {Missing, 0, 4}
SortTotals == {100, 150}
SortDistances == {Missing, 0, 500}
SortBys == {"rating", "distance", "prominence"}
SortLimits == {2, DefaultLimit}

SortInit ==
    /\ placeResults = <<>>
    /\ sortParams = NoSortParams
    /\ sortedResults = <<>>
    /\ sortPc = "collecting"

\* one more place in the list handed to the call; ids are the positions
AddPlace ==
    /\ sortPc = "collecting"
    /\ Len(placeResults) < MaxSortLen
    /\ \E r \in SortRatings, t \in SortTotals, d \in SortDistances :
          placeResults' = Append(placeResults,
                                 [id |-> Len(placeResults) + 1, rating |-> r,
                                  userRatingsTotal |-> t, distance |-> d])
    /\ UNCHANGED <<sortParams, sortedResults, sortPc,
                   geoVars, combineVars, mergeVars, turnVars, lookupVars>>

SortAndLimit ==
    /\ sortPc = "collecting"
    /\ \E sortBy \in SortBys, sortDesc \in BOOLEAN, limit \in SortLimits :
          /\ sortParams' = [sortBy |-> sortBy, sortDesc |-> sortDesc, limit |-> limit]
          /\ sortedResults' = sortAndLimitResults(placeResults, sortBy, sortDesc, limit)
    /\ sortPc' = "sorted"
    /\ UNCHANGED <<placeResults, geoVars, combineVars, mergeVars, turnVars, lookupVars>>

SortNext == AddPlace \/ SortAndLimit

InitSort == SortInit /\ GeoIdle /\ CombineIdle /\ MergeIdle /\ TurnIdle /\ LookupIdle

SpecSort == InitSort /\ [][SortNext]_vars

\* the output is in non-decreasing order of key
Ordered(list, key(_), ascending) ==
    \A i \in 1..Len(list) - 1 :
        IF ascending THEN key(list[i]) <= key(list[i + 1])
        ELSE key(list[i]) >= key(list[i + 1])

ratingOf(p) == orZero(p.rating)
totalOf(p) == orZero(p.userRatingsTotal)
distanceOf(p) == p.distance

\* the output is drawn from the input: distinct places of the input, as many as
\* the limit allows
DrawnFromInput ==
    /\ Len(sortedResults) = (IF sortParams.limit < Len(placeResults)
                             THEN sortParams.limit ELSE Len(placeResults))
    /\ Range(sortedResults) \subseteq Range(placeResults)
    /\ \A p \in Range(placeResults) \ Range(sortedResults),
          q \in Range(sortedResults) :
          compare(q, p, sortParams.sortBy, sortParams.sortDesc) <= 0

RatingOrdered ==
    /\ Ordered(sortedResults, ratingOf, ~sortParams.sortDesc)
    /\ \A i \in 1..Len(sortedResults) - 1 :
          ratingOf(sortedResults[i]) = ratingOf(sortedResults[i + 1]) =>
              IF sortParams.sortDesc
              THEN totalOf(sortedResults[i]) >= totalOf(sortedResults[i + 1])
              ELSE totalOf(sortedResults[i]) <= totalOf(sortedResults[i + 1])

\* the places of the output all have a distance, in increasing order
DistanceOrdered ==
    \A i \in 1..Len(sortedResults) - 1 :
        (sortedResults[i].distance # Missing /\ sortedResults[i + 1].distance # Missing)
            => sortedResults[i].distance <= sortedResults[i + 1].distance

\* C15 (as claimed): with sortBy 'rating' the result is the first `limit`
\* places by rating in the asked direction, equal ratings by number of user
\* ratings in the same direction; with sortBy 'distance' and sortDesc false the
\* result is in increasing distance; the result never has more than `limit`
\* places.
C15_OrderingAndLimit ==
    sortPc = "sorted" =>
        /\ Len(sortedResults) <= sortParams.limit
        /\ sortParams.sortBy = "rating" => (RatingOrdered /\ DrawnFromInput)
        /\ (sortParams.sortBy = "distance" /\ ~sortParams.sortDesc) => DistanceOrdered

\* the parts of C15 that hold: the rating order and the limit
C15_RatingAndLimit ==
    sortPc = "sorted" =>
        /\ Len(sortedResults) <= sortParams.limit
        /\ sortParams.sortBy = "rating" => (RatingOrdered /\ DrawnFromInput)

\* a call with the defaults: rating, descending, limit 20
DefaultRatingSort ==
    /\ sortPc = "sorted"
    /\ sortParams.sortBy = "rating" /\ sortParams.sortDesc
    /\ sortParams.limit = DefaultLimit

\* C16 (as claimed): with the default rating-descending sort a place with no
\* rating comes after every place with a positive rating, and a place with no
\* rating and 100 user ratings comes before a place whose rating is explicitly
\* 0 with 150 user ratings.
C16_MissingRatings ==
    DefaultRatingSort =>
        \A i, j \in 1..Len(sortedResults) :
            /\ (sortedResults[i].rating = Missing /\ sortedResults[j].rating > 0)
                    => j < i
            /\ (/\ sortedResults[i].rating = Missing
                /\ sortedResults[i].userRatingsTotal = 100
                /\ sortedResults[j].rating = 0
                /\ sortedResults[j].userRatingsTotal = 150) => i < j

\* the part of C16 that holds: no rating sorts after every positive rating
C16_MissingAfterPositive ==
    DefaultRatingSort =>
        \A i, j \in 1..Len(sortedResults) :
            (sortedResults[i].rating = Missing /\ sortedResults[j].rating > 0)
                => j < i

\* ---------------------------------------------------------------------------
\* The turn under fair scheduling (SpecLive)
\* ---------------------------------------------------------------------------

\* processQuery is one async function: each step awaits a collaborator that
\* returns or throws, and the event loop resumes the function after either, so
\* a step that can be taken is eventually taken.
SpecLive == Init /\ [][Next]_vars /\ WF_vars(Next)

\* the turn has returned an output with a response text
Answered == pc = "done" /\ result.response # ""

ChainRan ==
    /\ pc \in {"chained", "done"}
    /\ Len(orderedAgents) >= 2
    /\ agentOutputs # <<>>

\* the output carries what the agent is there to give, or asks for an input
Delivered(o) ==
    \/ o.mongoQuery # Undefined
    \/ o.missingInputs # <<>>
    \/ DOMAIN o.data \cap {"nearbyPlaces", "property", "validatedInput"} # {}
    \/ o.response = "the user's message"

HasErrorMarker(o) == "error" \in DOMAIN o.data /\ o.response # ""

\* the agents the chain called, in order
ChainCalls == SelectSeq(PipelineCalls, LAMBDA c : c \in AgentNames)

\* step 11 threw: the context store failed after the chain
StoreFailedAfterChain ==
    /\ result = ErrorOutput
    /\ calls[Len(calls)] = "updateSearchContext"
    /\ currentResult.mongoQuery # Undefined

RECURSIVE SelectSeqByIndex(_, _)
SelectSeqByIndex(s, keep) ==
    IF s = <<>> THEN <<>>
    ELSE SelectSeqByIndex(SubSeq(s, 1, Len(s) - 1), keep)
            \o (IF Len(s) \in keep THEN <<s[Len(s)]>> ELSE <<>>)

\* the turn went through processMapsFirst and MapsAgent has answered
FastPathB == orderedAgents = <<>> /\ agentOutputs # <<>>

CrossValidated == "validatedCount" \in DOMAIN result.data

Called(name) == \E i \in 1..Len(calls) : calls[i] = name

\* C19: in processMapsFirst, a MapsAgent output without lookup results is
\* returned and FilterAgent is not run; a FilterAgent output without a filter
\* is returned and the record store is not queried; when the query has run the
\* turn returns either the cross-validated result or, the query having failed,
\* the FilterAgent output; no partial result is cross-validated.
C19_PartialResult ==
    FastPathB =>
        LET mapsResult == agentOutputs[1]
            noPlaces == "nearbyPlaces" \notin DOMAIN mapsResult.data
            filtered == Len(agentOutputs) = 2
            filterResult == agentOutputs[Len(agentOutputs)]
        IN  /\ noPlaces =>
                /\ pc = "done" /\ result = mapsResult
                /\ ~filtered /\ Count("FilterAgent", PipelineCalls) = 0
                /\ ~Called("executeQuery") /\ ~CrossValidated
            /\ (filtered /\ filterResult.mongoQuery = Undefined) =>
                /\ pc = "done" /\ result = filterResult
                /\ ~Called("executeQuery") /\ ~CrossValidated
            /\ (pc = "done" /\ Called("executeQuery")) =>
                \/ result = filterResult /\ ~CrossValidated
                \/ CrossValidated

\* the three partial results: MapsAgent's, FilterAgent's without a filter,
\* FilterAgent's after a failed query
C19_Witness ==
    /\ FastPathB /\ pc = "done"
    /\ Len(agentOutputs) = 2
    /\ Called("executeQuery")
    /\ result = agentOutputs[2]

C19_ReachMapsResult ==
    /\ FastPathB /\ pc = "done"
    /\ Len(agentOutputs) = 1
    /\ result = agentOutputs[1]

C19_ReachFilterResult ==
    /\ FastPathB /\ pc = "done"
    /\ Len(agentOutputs) = 2
    /\ ~Called("executeQuery")
    /\ result = agentOutputs[2]

\* C20: a cross-validated result of processMapsFirst carries validatedCount
\* and totalCount; validatedCount is the number of returned records,
\* totalCount the number of records the store returned, the returned records
\* are a sub-list of the store's in the same order, and validatedCount is at
\* most totalCount.
C20_Counts ==
    (pc = "done" /\ CrossValidated) =>
        LET data == result.data
        IN  /\ {"validatedCount", "totalCount", "properties", "originalProperties"}
                    \subseteq DOMAIN data
            /\ data.validatedCount = Len(data.properties)
            /\ data.totalCount = Len(data.originalProperties)
            /\ \E keep \in SUBSET (1..Len(data.originalProperties)) :
                  data.properties =
                      SelectSeqByIndex(data.originalProperties, keep)
            /\ data.validatedCount <= data.totalCount

\* some of the store's records were dropped by the cross-validation
C20_Witness ==
    /\ pc = "done" /\ CrossValidated
    /\ 0 < result.data.validatedCount
    /\ result.data.validatedCount < result.data.totalCount

\* ---------------------------------------------------------------------------
\* The proximity marker of MapsAgentService
\* ---------------------------------------------------------------------------

\* the keys of generateMongoQueryForLocation's filter ('location.city', ...)
LocationKeys == 7

\* the keys of {...locationQuery, _proximityFilter: {...}}
LocationAndProximityKeys == 8

generateMongoQueryForLocation == Fragment(LocationKeys)

\* generateMongoQueryWithProximity: the location filter, with the
\* _proximityFilter key when a lookup found a place.  Its only callers are
\* processWithAndOperator and processWithOrOperator, which nothing calls:
\* MapsAgentService.process returns no mongoQuery.
generateMongoQueryWithProximity(nearbyPlaces) ==
    IF \A i \in 1..Len(nearbyPlaces) : nearbyPlaces[i].results = <<>>
    THEN generateMongoQueryForLocation
    ELSE Fragment(LocationAndProximityKeys)

\* the filter constrains the location / carries the proximity marker
ConstrainsLocation(q) ==
    q # Undefined /\ Range(q) \cap {LocationKeys, LocationAndProximityKeys} # {}

CarriesProximityMarker(q) ==
    q # Undefined /\ LocationAndProximityKeys \in Range(q)

\* C21 (as claimed): a turn that ran FilterAgent and MapsAgent on a location
\* and amenities returns a merged filter that conjoins the location
\* constraint with the proximity marker built from the places found.
C21_ProximityMarker ==
    (pc = "done" /\ CrossValidated) =>
        LET marker == generateMongoQueryWithProximity(result.data.nearbyPlaces)
        IN  /\ ConstrainsLocation(result.mongoQuery)
            /\ CarriesProximityMarker(marker)
                  => CarriesProximityMarker(result.mongoQuery)

\* what the code does: the turn's filter is FilterAgent's own, untouched
C21_FilterAgentsOwn ==
    (pc = "done" /\ CrossValidated) =>
        /\ result.mongoQuery = agentOutputs[2].mongoQuery
        /\ agentOutputs[1].mongoQuery = Undefined

\* ---------------------------------------------------------------------------
\* Response text merging (checked under SpecCombine)
\* ---------------------------------------------------------------------------

\* the texts of the outputs processed so far that are not empty and match no
\* generic-failure phrase, in order
ValidTexts ==
    LET valid == SelectSeq(SubSeq(agentOutputs, 1, combineIdx),
                     LAMBDA r : r.response # "" /\ ~isGenericFailure(r.response))
    IN  [i \in 1..Len(valid) |-> valid[i].response]

\* combineResults has run at least once
Merged == combineIdx >= 2

\* C22 (as claimed): generic-failure texts are discarded; with more than one
\* valid text the reply is the synthesis, or the first valid text when the
\* synthesis fails; with exactly one it is that text; with none it is the
\* fixed generic apology.
C22_ResponseMerging ==
    Merged =>
        /\ Len(ValidTexts) > 1 =>
              currentResult.response \in {SynthesizedResponse, ValidTexts[1]}
        /\ Len(ValidTexts) = 1 => currentResult.response = ValidTexts[1]
        /\ Len(ValidTexts) = 0 => currentResult.response = NoAgentsResponse

\* the parts of C22 that hold: the replies when a valid text remains
C22_ValidTextRemains ==
    Merged =>
        /\ Len(ValidTexts) > 1 =>
              currentResult.response \in {SynthesizedResponse, ValidTexts[1]}
        /\ Len(ValidTexts) = 1 => currentResult.response = ValidTexts[1]

\* ---------------------------------------------------------------------------
\* Data-bag merge order
\* ---------------------------------------------------------------------------

\* the position of the last of the outputs whose data bag has the key
LastWith(key, outputs) ==
    CHOOSE i \in 1..Len(outputs) :
        /\ key \in DOMAIN outputs[i].data
        /\ \A j \in (i + 1)..Len(outputs) : key \notin DOMAIN outputs[j].data

\* the keys processMapsFirst sets itself on the combined result
OrchestratorKeys == {"properties", "originalProperties", "validatedCount", "totalCount"}

\* C23: in a merged result every data key other than the filter holds the
\* value of the last executed agent that produced it: in the chain of
\* processWithAgents (fast path A included), and in processMapsFirst for
\* every key both MapsAgent and FilterAgent produced.
C23_LaterValueWins ==
    /\ ChainRan =>
          /\ DOMAIN currentResult.data = UNION {DOMAIN agentOutputs[i].data :
                                                    i \in 1..Len(agentOutputs)}
          /\ \A key \in DOMAIN currentResult.data :
                currentResult.data[key]
                    = agentOutputs[LastWith(key, agentOutputs)].data[key]
    /\ (FastPathB /\ pc = "done" /\ CrossValidated) =>
          \A key \in (DOMAIN agentOutputs[1].data \cap DOMAIN agentOutputs[2].data)
                        \ OrchestratorKeys :
              result.data[key] = agentOutputs[2].data[key]

\* two agents of a chain both left an error key, and the later one's is kept
C23_Witness ==
    /\ ChainRan /\ pc = "done"
    /\ Len(agentOutputs) = 2
    /\ "error" \in DOMAIN agentOutputs[1].data
    /\ "error" \in DOMAIN agentOutputs[2].data
    /\ agentOutputs[1].data.error # agentOutputs[2].data.error
    /\ result.data.error = agentOutputs[2].data.error

\* ---------------------------------------------------------------------------
\* The context store protocol of a turn
\* ---------------------------------------------------------------------------

Reads == Count("getSearchContext", calls)
Writes == Count("updateSearchContext", calls)

\* C24 (as claimed): in every turn the context store is read exactly once,
\* first of all, and written exactly once, last of all: no agent runs after
\* the write.
C24_ReadOnceWriteOnce ==
    pc = "done" =>
        /\ Reads = 1 /\ calls[1] = "getSearchContext"
        /\ Writes = 1 /\ calls[Len(calls)] = "updateSearchContext"

\* the part of C24 that holds: one read, before everything else
C24_ReadOnceFirst ==
    pc # "received" => (Reads = 1 /\ calls[1] = "getSearchContext")

\* what the code does: a write right after planning, before the validator,
\* and a second one after a chain that gave a filter
C24_WriteAfterPlanning ==
    (pc = "done" /\ Called("ValidatorAgent")) =>
        /\ Writes \in {1, 2}
        /\ calls[3] = "updateSearchContext" /\ calls[4] = "ValidatorAgent"

\* ---------------------------------------------------------------------------
\* The filter persisted after execution
\* ---------------------------------------------------------------------------

\* the turn is over and returned a non-empty filter
GaveFilter ==
    /\ pc = "done"
    /\ result.mongoQuery # Undefined /\ result.mongoQuery # EmptyQuery

\* C25 (as claimed): after a turn that returned a non-empty filter, on the
\* generic path and on both fast paths, the persisted context holds that
\* filter.
C25_FilterPersisted ==
    GaveFilter => searchContext.mongoQuery = result.mongoQuery

\* the part of C25 that holds: the turns through processWithAgents
C25_ChainFilterPersisted ==
    (GaveFilter /\ ~FastPathB) => searchContext.mongoQuery = result.mongoQuery

\* ---------------------------------------------------------------------------
\* A failed planning call
\* ---------------------------------------------------------------------------

\* the turn is over, nothing but the read and the decision call happened, and
\* the answer is a generic apology with an error marker
Aborted ==
    /\ isGenericFailure(result.response)
    /\ "error" \in DOMAIN result.data
    /\ \A i \in 1..Len(calls) : calls[i] \in {"getSearchContext", "determineAgents"}

\* C26 (as claimed): when the decision call fails or returns malformed
\* output, the turn returns a generic apology with an error marker, runs no
\* agent (the validator included), makes no record-store or lookup call and
\* does not write the context.
C26_PlanningErrorAborts ==
    (pc = "done" /\ planning \in {"failed", "malformed"}) => Aborted

\* the part of C26 that holds: a decision call that throws
C26_ThrownPlanningAborts ==
    (pc = "done" /\ planning = "failed") => Aborted

\* what the code does with an object that lacks the decision's fields: the
\* empty decision is persisted, the validator runs, and the turn ends with
\* 'No agents available'
C26_MalformedGoesOn ==
    (pc = "done" /\ planning = "malformed") =>
        /\ Writes = 1 /\ Called("ValidatorAgent")
        /\ result = NoAgentsOutput

\* ---------------------------------------------------------------------------
\* The lookups of MapsAgentService.process (SpecLookup)
\* ---------------------------------------------------------------------------

MaxAmenities == 3

\* how a lookup ends: it finds a place, finds none, the places request fails,
\* the location cannot be resolved, no API key is configured, or the request
\* is refused because it has neither coordinates nor state nor city
LookupOutcomes == {"found", "none", "httpError", "geocodeError"}

\* findByLocation up to its first await: without an API key it returns an
\* empty ERROR response; with neither coordinates nor state nor city it throws
\* BadRequestException, which its catch throws again; otherwise it waits for
\* the location resolver
startLookup(request) ==
    IF ~request.hasApiKey
    THEN [status |-> "fulfilled", outcome |-> "noApiKey", results |-> <<>>]
    ELSE IF ~request.locationIsString
    THEN [status |-> "rejected", outcome |-> "badRequest", results |-> <<>>]
    ELSE [status |-> "pending", outcome |-> "", results |-> <<>>]

\* the rest of findByLocation: every failure behind the first await is caught
\* and answered with an empty ERROR response
settleLookup(i, outcome) ==
    [status |-> "fulfilled", outcome |-> outcome,
     results |-> IF outcome = "found" THEN <<[type |-> i, km |-> 10]>> ELSE <<>>]

LookupInit ==
    /\ lookupRequest = NoRequest
    /\ lookups = <<>>
    /\ batch = [pc |-> "called", nearbyPlaces |-> <<>>]

\* amenities.map((amenity) => findByLocation([amenity], ...)): every lookup
\* is started before any of them is awaited; location is handed on as state
\* and city only when it is a string
StartLookups ==
    /\ batch.pc = "called"
    /\ \E n \in 1..MaxAmenities, isString \in BOOLEAN, hasKey \in BOOLEAN :
          LET request == [locationIsString |-> isString, hasApiKey |-> hasKey]
          IN  /\ lookupRequest' = request
              /\ lookups' = [i \in 1..n |-> startLookup(request)]
    /\ batch' = [batch EXCEPT !.pc = "awaiting"]
    /\ UNCHANGED <<geoVars, combineVars, mergeVars, turnVars, sortVars>>

\* one pending lookup settles, in any order
SettleLookup ==
    /\ batch.pc = "awaiting"
    /\ \E i \in 1..Len(lookups), outcome \in LookupOutcomes :
          /\ lookups[i].status = "pending"
          /\ lookups' = [lookups EXCEPT ![i] = settleLookup(i, outcome)]
    /\ UNCHANGED <<lookupRequest, batch, geoVars, combineVars, mergeVars, turnVars, sortVars>>

\* Promise.all fulfils once every lookup is fulfilled; process returns the
\* responses in the order of the amenities
ResolveBatch ==
    /\ batch.pc = "awaiting"
    /\ \A i \in 1..Len(lookups) : lookups[i].status = "fulfilled"
    /\ batch' = [pc |-> "resolved",
                 nearbyPlaces |-> [i \in 1..Len(lookups) |->
                                      [results |-> lookups[i].results]]]
    /\ UNCHANGED <<lookupRequest, lookups, geoVars, combineVars, mergeVars, turnVars, sortVars>>

\* Promise.all rejects as soon as one lookup is rejected; the catch of
\* process answers with its apology and no nearbyPlaces
RejectBatch ==
    /\ batch.pc = "awaiting"
    /\ \E i \in 1..Len(lookups) : lookups[i].status = "rejected"
    /\ batch' = [pc |-> "rejected", nearbyPlaces |-> <<>>]
    /\ UNCHANGED <<lookupRequest, lookups, geoVars, combineVars, mergeVars, turnVars, sortVars>>

LookupNext == StartLookups \/ SettleLookup \/ ResolveBatch \/ RejectBatch

InitLookup ==
    LookupInit /\ GeoIdle /\ CombineIdle /\ MergeIdle /\ TurnIdle /\ SortIdle

SpecLookup == InitLookup /\ [][LookupNext]_vars

LookupFailed(l) == l.outcome \in {"httpError", "geocodeError", "noApiKey", "badRequest"}

BatchOver == batch.pc \in {"resolved", "rejected"}

\* C27 (as claimed): the lookups of a batch are all started before any is
\* awaited, the batch is over only when every lookup has settled, and a
\* lookup that failed leaves an empty result for its category while the batch
\* resolves with the results of the others.
C27_FanOutFanIn ==
    /\ batch.pc # "called" =>
          \A i \in 1..Len(lookups) :
              lookups[i].status \in {"pending", "fulfilled", "rejected"}
    /\ BatchOver =>
          /\ \A i \in 1..Len(lookups) : lookups[i].status # "pending"
          /\ (\E i \in 1..Len(lookups) : LookupFailed(lookups[i])) =>
                /\ batch.pc = "resolved"
                /\ \A i \in 1..Len(lookups) :
                      batch.nearbyPlaces[i].results =
                          IF LookupFailed(lookups[i]) THEN <<>> ELSE lookups[i].results

\* the part of C27 that holds: fan-out, fan-in, and failures behind the
\* first await
C27_CaughtFailuresIsolated ==
    /\ BatchOver => \A i \in 1..Len(lookups) : lookups[i].status # "pending"
    /\ (BatchOver /\ lookupRequest.locationIsString) =>
          /\ batch.pc = "resolved"
          /\ \A i \in 1..Len(lookups) :
                batch.nearbyPlaces[i].results =
                    IF LookupFailed(lookups[i]) THEN <<>> ELSE lookups[i].results

\* several lookups in flight at once; one failed and the others' places kept
C27_ReachConcurrent ==
    /\ batch.pc = "awaiting"
    /\ Len(lookups) >= 2
    /\ \A i \in 1..Len(lookups) : lookups[i].status = "pending"

C27_ReachIsolated ==
    /\ batch.pc = "resolved"
    /\ \E i, j \in 1..Len(lookups) :
          /\ lookups[i].outcome = "httpError"
          /\ batch.nearbyPlaces[j].results # <<>>

\* ---------------------------------------------------------------------------
\* The persisted context after a rejected turn
\* ---------------------------------------------------------------------------

\* C28 (as claimed): when the validator rejects a turn, the persisted context
\* after the turn is the context before the turn.
C28_RejectedTurnKeepsContext ==
    Rejection => searchContext = onceContext

\* what the code does: the rejected decision was persisted in step 3
C28_RejectedDecisionStored ==
    Rejection =>
        searchContext = updateSearchContext(onceContext, decision, Undefined)

\* ---------------------------------------------------------------------------
\* Which agents a plan makes run
\* ---------------------------------------------------------------------------

\* the agents, the validator left aside, whose process the turn has called
Ran == {name \in AgentNames \ {"ValidatorAgent"} : Called(name)}

\* C29 (as claimed): every agent other than the validator that is run is
\* named in the plan; a plan with MapsAgent and without FilterAgent never
\* runs FilterAgent or a record-store query.
C29_OnlyPlannedRun ==
    /\ Ran \subseteq Range(decision.agents)
    /\ ("MapsAgent" \in Range(decision.agents)
            /\ "FilterAgent" \notin Range(decision.agents)) =>
          (~Called("FilterAgent") /\ ~Called("executeQuery"))

\* the part of C29 that holds: the turns that do not go through
\* processMapsFirst
C29_ChainRunsPlanned ==
    ~useMapsFirst(decision) => Ran \subseteq Range(decision.agents)

\* what the code does: processMapsFirst takes FilterAgent from the registry
C29_MapsFirstRunsFilter ==
    (useMapsFirst(decision) /\ pc = "done" /\ CrossValidated) =>
        (Called("FilterAgent") /\ Called("executeQuery"))

\* ---------------------------------------------------------------------------
\* Required inputs
\* ---------------------------------------------------------------------------

\* the agents the turn is about to run once the validator has passed it
AboutToRun ==
    IF useMapsFirst(decision) THEN <<"MapsAgent", "FilterAgent">>
    ELSE selectAgents(decision.agents)

MissingForRun == checkMissingInputs(AboutToRun, decision.extractedInputs)

\* every agent that ran had its required inputs
RanWithInputs ==
    \A name \in Ran :
        \A i \in 1..Len(requiredInputs(name)) :
            hasInput(decision.extractedInputs, requiredInputs(name)[i])

\* a turn that got past the validator with a required input missing asks
\* for the missing inputs and runs no agent
AsksForMissing ==
    (pc = "done" /\ Called("ValidatorAgent") /\ ~Flagged /\ MissingForRun # <<>>) =>
        /\ result.missingInputs = MissingForRun
        /\ Ran = {}

\* C30 (as claimed): no agent's process is called while one of its required
\* inputs is absent; with a required input absent the turn returns the names
\* of the missing inputs and runs no agent, on the generic path and on the
\* geospatial-first path alike.
C30_RequiredInputsChecked == RanWithInputs /\ AsksForMissing

\* the part of C30 that holds: the turns through processWithAgents
C30_ChainChecksInputs ==
    ~useMapsFirst(decision) => (RanWithInputs /\ AsksForMissing)

====
